---- MODULE Spec2Model ----
(***************************************************************************)
(* A state-machine model of pymer4/models.py: the Lmer, Lm and Lm2 model   *)
(* classes, their constructors and their fit methods.                      *)
(*                                                                         *)
(* One model object is constructed and then operated on.  Python values    *)
(* are tagged records (None, bool, str, int, Series, array), numbers in    *)
(* result tables are exact rationals [n, d] with 0/0 standing for NaN.     *)
(* Numerical routines that live outside models.py (_ols, _perm_find,       *)
(* _sig_stars, _welch_ingredients, scipy's t distribution, R) are          *)
(* modelled by what the specification says of them; everything else is a   *)
(* translation of models.py.                                               *)
(***************************************************************************)
EXTENDS Integers, Sequences, FiniteSets, TLC

VARIABLES model, call, nfits

vars == <<model, call, nfits>>

(***************************************************************************)
(* Bounds of the model.                                                    *)
(***************************************************************************)
\* fit calls made on one model object
MaxFits == 1
\* n_boot passed by the caller (resamples of one bootstrap run)
NBoot == 2
\* the positive permutation count passed by the caller
NPerm == 2
\* states of the global random generator when a fit call draws its seeds
MaxRng == 2
\* seeds are drawn from 0 .. SeedMod - 1
SeedMod == 3
\* arguments of one fit call that differ from their defaults
MaxNonDefault == 3
\* most fit calls made on one model when calls are repeated
MaxSeqFits == 3
\* largest number of worker results whose every collection order is tried
MaxShuffled == 4

(***************************************************************************)
(* Program constants.                                                      *)
(***************************************************************************)
\* "if permute and permute < 500"
LowPermute == 500

(***************************************************************************)
(* Python values.                                                          *)
(***************************************************************************)
PyNone == [t |-> "None"]
PyBool(b) == [t |-> "bool", b |-> b]
PyStr(s) == [t |-> "str", s |-> s]
PyInt(n) == [t |-> "int", n |-> n]
PyFloat == [t |-> "float"]
\* an attribute the object does not have (yet)
Unset == [t |-> "unset"]

\* Python's truth value of an argument
Truthy(x) ==
  CASE x.t = "None" -> FALSE
    [] x.t = "bool" -> x.b
    [] x.t = "str" -> x.s # ""
    [] x.t = "int" -> x.n # 0
    [] x.t = "list" -> x.v # <<>>
    [] x.t = "dict" -> x.keys # {}
    [] OTHER -> TRUE

IsStr(x) == x.t = "str"

(***************************************************************************)
(* Exact rationals: [n, d] in lowest terms with d > 0; NaN is 0/0.         *)
(***************************************************************************)
Abs(i) == IF i < 0 THEN -i ELSE i

RECURSIVE Gcd(_, _)
Gcd(a, b) == IF b = 0 THEN a ELSE Gcd(b, a % b)

NaN == [n |-> 0, d |-> 0]

IsNaN(r) == r.d = 0

Rat(n, d) ==
  IF d = 0 THEN NaN
  ELSE LET g == Gcd(Abs(n), Abs(d))
           s == IF d < 0 THEN -1 ELSE 1
       IN [n |-> (s * n) \div g, d |-> (s * d) \div g]

RInt(i) == [n |-> i, d |-> 1]

RAdd(a, b) == IF IsNaN(a) \/ IsNaN(b) THEN NaN ELSE Rat(a.n * b.d + b.n * a.d, a.d * b.d)
RNeg(a) == IF IsNaN(a) THEN NaN ELSE [n |-> -a.n, d |-> a.d]
RSub(a, b) == RAdd(a, RNeg(b))
RMul(a, b) == IF IsNaN(a) \/ IsNaN(b) THEN NaN ELSE Rat(a.n * b.n, a.d * b.d)
RDiv(a, b) == IF IsNaN(a) \/ IsNaN(b) THEN NaN ELSE Rat(a.n * b.d, a.d * b.n)
RAbs(a) == [n |-> Abs(a.n), d |-> a.d]
\* comparisons with NaN are false, as in IEEE arithmetic
RLt(a, b) == ~IsNaN(a) /\ ~IsNaN(b) /\ a.n * b.d < b.n * a.d
RLe(a, b) == ~IsNaN(a) /\ ~IsNaN(b) /\ a.n * b.d <= b.n * a.d
RFloor(a) == a.n \div a.d

RECURSIVE RSum(_)
RSum(s) == IF s = <<>> THEN RInt(0) ELSE RAdd(Head(s), RSum(Tail(s)))

Range(s) == {s[i] : i \in DOMAIN s}

(***************************************************************************)
(* The data table handed to the constructors: a response DV, a predictor X *)
(* and two grouping columns, G with two groups and K with three.  No       *)
(* column has ties in its numeric values.                                  *)
(***************************************************************************)
InputRows ==
  << [DV |-> 1, X |-> 1, G |-> "a", K |-> "x"],
     [DV |-> 3, X |-> 2, G |-> "a", K |-> "x"],
     [DV |-> 2, X |-> 4, G |-> "a", K |-> "y"],
     [DV |-> 5, X |-> 3, G |-> "b", K |-> "y"],
     [DV |-> 9, X |-> 6, G |-> "b", K |-> "z"],
     [DV |-> 7, X |-> 5, G |-> "b", K |-> "z"] >>

InputColumns == <<"DV", "X", "G", "K">>

InputData == [columns |-> InputColumns, rows |-> InputRows, ranked |-> FALSE]

\* formulas as the caller writes them, one token per element
Formulas == { <<"DV", " ", "~", " ", "X">>, <<"DV", "~", "0", "+", "X">> }

Families == {"gaussian", "binomial", "gamma", "inverse_gaussian", "poisson", "weibull"}

(***************************************************************************)
(* pandas and patsy operations used by the model classes.                  *)
(***************************************************************************)
HasColumn(data, name) == name \in Range(data.columns)

\* data[name]: the column as a Series
Series(data, name) == [t |-> "Series", name |-> name, values |-> [i \in DOMAIN data.rows |-> data.rows[i][name]]]

\* Series.nunique()
nunique(series) == Cardinality(Range(series.values))

\* data.groupby(by).ngroups
ngroups(data, by) == Cardinality({data.rows[i][by] : i \in DOMAIN data.rows})

\* the values of column col in the rows whose column by equals g, in row order
GroupValues(data, by, g, col) ==
  LET idx == SelectSeq([i \in DOMAIN data.rows |-> i], LAMBDA i : data.rows[i][by] = g)
  IN [k \in DOMAIN idx |-> data.rows[idx[k]][col]]

RECURSIVE SumSeq(_)
SumSeq(s) == IF s = <<>> THEN 0 ELSE Head(s) + SumSeq(Tail(s))

\* np.var(x, ddof=1) = (n * sum(x^2) - sum(x)^2) / (n * (n - 1))
VarDdof1(x) ==
  LET n == Len(x)
      s1 == SumSeq(x)
      s2 == SumSeq([i \in DOMAIN x |-> x[i] * x[i]])
  IN Rat(n * s2 - s1 * s1, n * (n - 1))

\* 1 / data.groupby(by)[dv].transform(np.var, ddof=1): one weight per row
InverseGroupVariance(data, by, dv) ==
  [i \in DOMAIN data.rows |->
     RDiv(RInt(1), VarDdof1(GroupValues(data, by, data.rows[i][by], dv)))]

\* DataFrame.rank() on the numeric columns (the data has no ties)
RankRows(rows) ==
  [i \in DOMAIN rows |->
     [rows[i] EXCEPT
        !.DV = 1 + Cardinality({j \in DOMAIN rows : rows[j].DV < rows[i].DV}),
        !.X = 1 + Cardinality({j \in DOMAIN rows : rows[j].X < rows[i].X})]]

rank(data) == [data EXCEPT !.rows = RankRows(data.rows), !.ranked = TRUE]

\* formula.replace(" ", "")
StripSpaces(formula) == SelectSeq(formula, LAMBDA tok : tok # " ")

RECURSIVE Before(_, _)
Before(s, sep) ==
  IF s = <<>> \/ Head(s) = sep THEN <<>> ELSE <<Head(s)>> \o Before(Tail(s), sep)

RECURSIVE After(_, _)
After(s, sep) ==
  IF s = <<>> THEN <<>> ELSE IF Head(s) = sep THEN Tail(s) ELSE After(Tail(s), sep)

RECURSIVE Join(_)
Join(s) == IF s = <<>> THEN "" ELSE Head(s) \o Join(Tail(s))

\* formula.split("~")[0]
ResponseName(formula) == Join(Before(formula, "~"))

\* patsy.dmatrices(formula, data, 1, return_type="dataframe"): y and x; x has
\* an Intercept column unless the formula removes it with "0", then one
\* column per predictor of the formula, in formula order
dmatrices(formula, data) ==
  LET rhs == After(formula, "~")
      terms == SelectSeq(rhs, LAMBDA tok : tok \notin {"0", "1", "+", " "})
      icpt == IF "0" \in Range(rhs) THEN <<>> ELSE <<"Intercept">>
  IN [y |-> [name |-> ResponseName(formula), ranked |-> data.ranked,
             values |-> [i \in DOMAIN data.rows |-> data.rows[i][ResponseName(formula)]]],
      x |-> [columns |-> icpt \o terms, nrows |-> Len(data.rows), ranked |-> data.ranked]]

(***************************************************************************)
(* Numerical collaborators of models.py (pymer4.utils, pymer4.stats,       *)
(* scipy.stats.t, numpy).  Their results are fixed functions of their      *)
(* arguments; the numbers are representative values.                       *)
(***************************************************************************)
SupportedRobust == {"hc0", "hc1", "hc2", "hc3", "hac", "cluster"}

Ok(v) == [ok |-> TRUE, v |-> v]
Raise(kind, msg) == [ok |-> FALSE, kind |-> kind, msg |-> msg]

\* coefficient of a design-matrix column
OlsEstimate(col, ranked, weighted) ==
  IF col = "Intercept" THEN RInt(IF ranked THEN 1 ELSE 0)
  ELSE RInt((IF ranked THEN 2 ELSE 4) + (IF weighted THEN 1 ELSE 0))

\* standard error under the selected variance estimator
OlsStdErr(robust) ==
  IF ~Truthy(robust) THEN RInt(1)
  ELSE CASE robust.s = "hc0" -> Rat(3, 2)
         [] robust.s = "hc1" -> RInt(2)
         [] robust.s = "hc2" -> Rat(5, 2)
         [] robust.s = "hc3" -> RInt(3)
         [] robust.s = "hac" -> Rat(7, 2)
         [] OTHER -> RInt(4)

\* utils._ols(x, y, robust, all_stats=True, n_lags, cluster, weights):
\* (b, se, t, res), or an error for an estimator name it does not know and
\* for cluster mode without a cluster assignment
ols(x, y, robust, cluster, weights) ==
  IF Truthy(robust) /\ robust.s \notin SupportedRobust
  THEN Raise("ValueError", "robust_estimator must be one of hc0, hc1, hc2, hc3, hac, or cluster")
  ELSE IF Truthy(robust) /\ robust.s = "cluster" /\ cluster.t = "None"
  THEN Raise("ValueError", "data column identifying clusters must be provided")
  ELSE LET b == [i \in DOMAIN x.columns |-> OlsEstimate(x.columns[i], x.ranked, weights.t # "None")]
           se == [i \in DOMAIN x.columns |-> OlsStdErr(robust)]
       IN Ok([b |-> b, se |-> se,
              t |-> [i \in DOMAIN x.columns |-> RDiv(b[i], se[i])],
              res |-> [t |-> "array", of |-> "residuals", ranked |-> x.ranked]])

\* 1000 * 2 * (1 - t.cdf(a, df)) for a = 0..4 (columns) and df = 1..6 (rows)
TwoSidedPerMille ==
  << <<1000, 500, 295, 205, 156>>,
     <<1000, 423, 184, 95, 57>>,
     <<1000, 391, 139, 58, 28>>,
     <<1000, 374, 116, 40, 16>>,
     <<1000, 363, 102, 30, 10>>,
     <<1000, 356, 92, 24, 7>> >>

\* 1000 * t.ppf(0.975, df) for df = 1..6
Ppf975PerMille == <<12706, 4303, 3182, 2776, 2571, 2447>>

Min(a, b) == IF a < b THEN a ELSE b

\* 2 * (1 - t_dist.cdf(abs(t), df)): NaN unless df > 0; tabulated at the
\* integer parts of |t| and df
TwoSidedP(t, df) ==
  IF IsNaN(t) \/ IsNaN(df) \/ ~RLt(RInt(0), df) THEN NaN
  ELSE Rat(TwoSidedPerMille[Min(6, IF RFloor(df) < 1 THEN 1 ELSE RFloor(df))][1 + Min(4, RFloor(RAbs(t)))], 1000)

\* t_dist.ppf(0.975, df); t_dist.ppf(0.025, df) is its negative
Ppf975(df) ==
  IF IsNaN(df) \/ ~RLt(RInt(0), df) THEN NaN
  ELSE Rat(Ppf975PerMille[Min(6, IF RFloor(df) < 1 THEN 1 ELSE RFloor(df))], 1000)

\* utils._sig_stars
sig_stars(p) ==
  IF RLe(RInt(0), p) /\ RLt(p, Rat(1, 1000)) THEN "***"
  ELSE IF RLe(Rat(1, 1000), p) /\ RLt(p, Rat(1, 100)) THEN "**"
  ELSE IF RLe(Rat(1, 100), p) /\ RLt(p, Rat(5, 100)) THEN "*"
  ELSE IF RLe(Rat(5, 100), p) /\ RLt(p, Rat(1, 10)) THEN "."
  ELSE ""

\* utils._perm_find(arr, x) = (#{|arr| >= |x|} + 1) / (len(arr) + 1)
perm_find(arr, x) ==
  Rat(Cardinality({i \in DOMAIN arr : RLe(RAbs(x), RAbs(arr[i]))}) + 1, Len(arr) + 1)

\* stats._welch_ingredients(x): var/n and (var/n)^2 / (n - 1) of one group
welch_ingredients(x) ==
  LET s2 == RDiv(VarDdof1(x), RInt(Len(x)))
  IN <<s2, RDiv(RMul(s2, s2), RInt(Len(x) - 1))>>

\* the groups of column by, in order of first appearance
GroupKeys(data, by) ==
  LET firsts == SelectSeq([i \in DOMAIN data.rows |-> i],
                          LAMBDA i : \A j \in 1..(i - 1) : data.rows[j][by] # data.rows[i][by])
  IN [k \in DOMAIN firsts |-> data.rows[firsts[k]][by]]

\* a percentile that interpolates in the column as it stands, without sorting
PercentileInPlace(column, qn, qd) ==
  LET n == Len(column)
      h == Rat((n - 1) * qn, qd)
      lo == RFloor(h)
      frac == RSub(h, RInt(lo))
      hi == Min(lo + 2, n)
  IN RAdd(column[lo + 1], RMul(frac, RSub(column[hi], column[lo + 1])))

\* np.percentile(column, 100 * qn / qd) with linear interpolation
Percentile(column, qn, qd) ==
  LET s == SortSeq(column, LAMBDA a, b : RLt(a, b))
      n == Len(s)
      h == Rat((n - 1) * qn, qd)
      lo == RFloor(h)
      frac == RSub(h, RInt(lo))
      hi == Min(lo + 2, n)
  IN RAdd(s[lo + 1], RMul(frac, RSub(s[hi], s[lo + 1])))

\* np.random.randint(np.iinfo(np.int32).max, size=n): the k-th seed drawn
\* (k = 0, 1, ...) when the generator is in state rng
SeedAt(rng, k) == (rng * (k + 1)) % SeedMod

\* utils._chunk_boot_ols_coefs(dat, formula, weights, seed): the coefficients
\* refitted on the resample of dat that the seed selects
chunk_boot_ols_coefs(dat, formula, weights, seed) ==
  LET x == dmatrices(formula, dat).x
  IN [i \in DOMAIN x.columns |->
        RAdd(OlsEstimate(x.columns[i], x.ranked, weights.t # "None"), RInt(seed - 1))]

\* utils._chunk_perm_ols(x, y, robust, n_lags, cluster, weights, seed): the
\* t-statistics refitted on the shuffle of y that the seed selects
chunk_perm_ols(x, y, robust, cluster, weights, seed) ==
  [i \in DOMAIN x.columns |-> RInt(2 * ((seed + i) % 3) - 2)]

(***************************************************************************)
(* Lm: the constructor.                                                    *)
(***************************************************************************)
NoModel == [cls |-> "none"]

\* Lm.__init__(formula, data, family)
LmInit(formula, data, family) ==
  IF family # "gaussian"
  THEN Raise("NotImplementedError", "Currently only linear (family ='gaussian') models supported! ")
  ELSE Ok([cls |-> "Lm",
           family |-> family,
           fitted |-> FALSE,
           formula |-> StripSpaces(formula),
           data |-> data,
           AIC |-> PyNone,
           logLike |-> PyNone,
           warnings |-> <<>>,
           resid |-> PyNone,
           coefs |-> PyNone,
           model_obj |-> PyNone,
           factors |-> PyNone,
           ci_type |-> PyNone,
           se_type |-> PyNone,
           sig_type |-> PyNone,
           ranked_data |-> FALSE,
           estimator |-> PyNone,
           design_matrix |-> Unset,
           fits |-> Unset,
           rsquared |-> Unset,
           rsquared_adj |-> Unset,
           BIC |-> Unset])

(***************************************************************************)
(* Lm.fit: the arguments a caller may pass.                                *)
(***************************************************************************)
\* an array of weights computed by the caller, as in the docstring example
UserWeights == [t |-> "array", values |-> InverseGroupVariance(InputData, "G", "DV")]

LmFitDefaults ==
  [robust |-> PyBool(FALSE), conf_int |-> "standard", permute |-> PyNone, rank |-> FALSE,
   n_boot |-> NBoot, n_jobs |-> 1, cluster |-> PyNone, weights |-> PyNone,
   wls_dof_correction |-> TRUE]

RobustArgs ==
  {PyBool(FALSE), PyBool(TRUE), PyStr("hc0"), PyStr("hc1"), PyStr("hc2"), PyStr("hc3"),
   PyStr("hac"), PyStr("cluster"), PyStr("hc4")}

LmFitArgDomain ==
  [robust : RobustArgs,
   conf_int : {"standard", "boot"},
   permute : {PyNone, PyInt(0), PyInt(NPerm), PyInt(LowPermute)},
   rank : BOOLEAN,
   n_boot : {NBoot},
   n_jobs : {1, 2},
   cluster : {PyNone, PyStr("G"), PyStr("site")},
   weights : {PyNone, PyStr("G"), PyStr("K"), UserWeights},
   wls_dof_correction : BOOLEAN]

NonDefaultCount(a) == Cardinality({f \in DOMAIN a : a[f] # LmFitDefaults[f]})

LmFitArgs == {a \in LmFitArgDomain : NonDefaultCount(a) <= MaxNonDefault}

(***************************************************************************)
(* Lm.fit.  LmFit(m, a, rng) is the whole call on model m with arguments a *)
(* when the random generator is in state rng: the model as the call leaves *)
(* it, the outcome (a return or the exception raised), and what the call   *)
(* handed to its collaborators.                                            *)
(***************************************************************************)
PermWarning == "Permutation testing < 500 permutations is not recommended"
WelchWarning == "Welch-Satterthwait DOF correction only supported for 2 groups in the data"
ClusterError == "cluster identifier must be an existing column in data"
WeightsError == "If weights is a string it must be a column that exists in the data"

LmCoefColumns == <<"Estimate", "2.5_ci", "97.5_ci", "SE", "DF", "T-stat", "P-val", "Sig">>
LmNumericColumns == <<"Estimate", "2.5_ci", "97.5_ci", "SE", "DF", "T-stat", "P-val">>

\* np.column_stack of number and string columns: every cell becomes text,
\* a number's text spelling that number
NumText(r) == [text |-> "number", spells |-> r]
StrText(s) == [text |-> "string", chars |-> s]

\* pd.to_numeric(cell, "coerce"): the number a text cell spells, NaN for text
\* that spells none
to_numeric(cell) == IF cell.text = "number" THEN cell.spells ELSE NaN

\* results[names] = results[names].apply(pd.to_numeric, args=("coerce",))
ToNumericColumns(table, names) ==
  [table EXCEPT !.rows =
     [i \in DOMAIN table.rows |->
        [j \in DOMAIN table.columns |->
           IF table.columns[j] \in Range(names)
           THEN to_numeric(table.rows[i][j]) ELSE table.rows[i][j]]]]

\* DataFrame.rename(columns=mapping)
RenameColumns(table, mapping) ==
  [table EXCEPT !.columns =
     [j \in DOMAIN table.columns |->
        IF table.columns[j] \in DOMAIN mapping THEN mapping[table.columns[j]]
        ELSE table.columns[j]]]

\* a rename that forgets the p-value column
LmRenameOnlyDF == [c \in {"DF"} |-> "Num_perm"]

\* the rename at the end of Lm.fit
LmPermuteRename == [c \in {"DF", "P-val"} |-> IF c = "DF" THEN "Num_perm" ELSE "Perm-P-val"]

\* the values of the columns assigned to a frame after it was read
Assigned(data) == IF "assigned" \in DOMAIN data THEN data.assigned ELSE <<>>

\* data[name] = values
SetColumn(data, name, values) ==
  [columns |-> IF HasColumn(data, name) THEN data.columns ELSE Append(data.columns, name),
   rows |-> data.rows,
   ranked |-> data.ranked,
   assigned |-> [c \in DOMAIN Assigned(data) \cup {name} |->
                   IF c = name THEN values ELSE Assigned(data)[c]]]

\* a list that keeps only the newest warning
LmWarnKeepsNewest(warnings, w) == <<w>>

\* self.warnings.append(w)
LmWarn(warnings, w) == Append(warnings, w)

\* a default of hc0 in place of hc1
LmRobustNameHC0(robust) == IF robust.t = "bool" THEN PyStr("hc0") ELSE robust

\* the isinstance(robust, bool) branch
LmRobustName(robust) == IF robust.t = "bool" THEN PyStr("hc1") ELSE robust

\* the one element of a singleton set; {e(v) : v \in {d}} evaluates d once
Only(S) == CHOOSE v \in S : TRUE

\* lines 1393-1403 and 1455-1492: the estimator name, the cluster labels, the
\* weights and the design matrices handed to _ols
LmDesign(m, a) ==
  LET ddat == IF a.rank THEN rank(m.data) ELSE m.data
      yx == dmatrices(m.formula, ddat)
  IN [robust |-> IF Truthy(a.robust) THEN LmRobustName(a.robust) ELSE a.robust,
      cluster |-> IF Truthy(a.robust) /\ Truthy(a.cluster)
                  THEN Series(m.data, a.cluster.s) ELSE a.cluster,
      weights |-> IF IsStr(a.weights)
                  THEN [t |-> "Series",
                        values |-> InverseGroupVariance(m.data, a.weights.s, ResponseName(m.formula))]
                  ELSE a.weights,
      x |-> yx.x,
      y |-> yx.y]

\* lines 1493-1514: the degrees of freedom of the parametric test
LmDegreesOfFreedom(m, a, x, cluster) ==
  IF cluster.t # "None"
  THEN RInt(nunique(cluster) - Len(x.columns))
  ELSE IF IsStr(a.weights) /\ a.wls_dof_correction /\ ngroups(m.data, a.weights.s) = 2
  THEN LET dv == ResponseName(m.formula)
           keys == GroupKeys(m.data, a.weights.s)
           ing == [k \in DOMAIN keys |->
                     welch_ingredients(GroupValues(m.data, a.weights.s, keys[k], dv))]
           num == RSum([k \in DOMAIN ing |-> ing[k][1]])
           den == RSum([k \in DOMAIN ing |-> ing[k][2]])
       IN RDiv(RMul(num, num), den)
  ELSE RInt(x.nrows - Len(x.columns))

\* a call that never issues the Welch-Satterthwaite warning
LmWelchNeverWarns(m, a, cluster) == FALSE

\* lines 1500-1504: whether the Welch-Satterthwaite warning is issued
LmWelchWarns(m, a, cluster) ==
  /\ cluster.t = "None"
  /\ IsStr(a.weights)
  /\ a.wls_dof_correction
  /\ ngroups(m.data, a.weights.s) # 2

\* a pool that takes the caller's worker count as given
LmPermuteJobsAsPassed(robust, n_jobs) == n_jobs

\* lines 1550-1552: the worker count of the permutation pool
LmPermuteJobs(robust, n_jobs) == IF Truthy(robust) THEN 1 ELSE n_jobs

\* line 1531: the data the bootstrap workers resample
LmBootData(m) == m.data

\* lines 1536-1538: the percentile bounds of the collected coefficient vectors
LmBootBounds(boot_betas, ncols) ==
  [ci_u |-> [i \in 1..ncols |->
               Percentile([k \in DOMAIN boot_betas |-> boot_betas[k][i]], 39, 40)],
   ci_l |-> [i \in 1..ncols |->
               Percentile([k \in DOMAIN boot_betas |-> boot_betas[k][i]], 1, 40)]]

\* a p-value read off the first coefficient's permuted statistics for every row
LmPermPFirstColumn(perm_ts, t) ==
  [i \in DOMAIN t |-> perm_find([k \in DOMAIN perm_ts |-> perm_ts[k][1]], t[i])]

\* lines 1566-1571: each coefficient's p-value from its own column of the
\* collected permuted statistics
LmPermP(perm_ts, t) ==
  [i \in DOMAIN t |-> perm_find([k \in DOMAIN perm_ts |-> perm_ts[k][i]], t[i])]

\* lines 1522-1538: the bootstrap pool, its tasks and the percentile bounds
LmBootstrap(m, a, rng, d) ==
  LET tasks == [k \in 1..a.n_boot |->
                  [fn |-> "_chunk_boot_ols_coefs", dat |-> LmBootData(m),
                   formula |-> m.formula, weights |-> a.weights, seed |-> SeedAt(rng, k - 1)]]
  IN Only({ [pool |-> [n_jobs |-> a.n_jobs, tasks |-> tasks],
             ci_u |-> LmBootBounds(betas, Len(d.x.columns)).ci_u,
             ci_l |-> LmBootBounds(betas, Len(d.x.columns)).ci_l] :
            betas \in { [k \in DOMAIN tasks |->
                           chunk_boot_ols_coefs(tasks[k].dat, tasks[k].formula,
                                                tasks[k].weights, tasks[k].seed)] } })

\* lines 1541-1543: the parametric bounds
LmStandardBounds(b, se, df) ==
  Only({ [ci_u |-> [i \in DOMAIN b |-> RAdd(b[i], RMul(q, se[i]))],
          ci_l |-> [i \in DOMAIN b |-> RAdd(b[i], RMul(RNeg(q), se[i]))]] :
         q \in {Ppf975(df)} })

\* lines 1546-1573: the permutation pool, its tasks and the empirical p-values
LmPermutation(a, rng, d, t) ==
  LET drawn == IF a.conf_int = "boot" THEN a.n_boot ELSE 0
      tasks == [k \in 1..a.permute.n |->
                  [fn |-> "_chunk_perm_ols", x |-> d.x, y |-> d.y, robust |-> d.robust,
                   cluster |-> d.cluster, weights |-> a.weights,
                   seed |-> SeedAt(rng, drawn + k - 1)]]
  IN Only({ [pool |-> [n_jobs |-> LmPermuteJobs(d.robust, a.n_jobs), tasks |-> tasks],
             p |-> LmPermP(perm_ts, t),
             df |-> RInt(a.permute.n)] :
            perm_ts \in { [k \in DOMAIN tasks |->
                             chunk_perm_ols(tasks[k].x, tasks[k].y, tasks[k].robust,
                                            tasks[k].cluster, tasks[k].weights, tasks[k].seed)] } })

\* a table whose Sig is the marker of the parametric p-value of t
LmResultsParametricSig(a, x, b, se, t, ci, df, p) ==
  LET stacked == [t |-> "DataFrame",
                  index |-> x.columns,
                  columns |-> LmCoefColumns,
                  rows |-> [i \in DOMAIN x.columns |->
                              << NumText(b[i]), NumText(ci.ci_l[i]), NumText(ci.ci_u[i]),
                                 NumText(se[i]), NumText(df), NumText(t[i]), NumText(p[i]),
                                 StrText(sig_stars(TwoSidedP(t[i],
                                                   RInt(x.nrows - Len(x.columns))))) >>]]
      numeric == ToNumericColumns(stacked, LmNumericColumns)
  IN IF Truthy(a.permute) THEN RenameColumns(numeric, LmPermuteRename) ELSE numeric

\* a table whose rows are stacked in the reverse of the design's column order
LmResultsReversed(a, x, b, se, t, ci, df, p) ==
  LET n == Len(x.columns)
      stacked == [t |-> "DataFrame",
                  index |-> x.columns,
                  columns |-> LmCoefColumns,
                  rows |-> [i \in DOMAIN x.columns |->
                              << NumText(b[n + 1 - i]), NumText(ci.ci_l[n + 1 - i]),
                                 NumText(ci.ci_u[n + 1 - i]), NumText(se[n + 1 - i]),
                                 NumText(df), NumText(t[n + 1 - i]), NumText(p[n + 1 - i]),
                                 StrText(sig_stars(p[n + 1 - i])) >>]]
      numeric == ToNumericColumns(stacked, LmNumericColumns)
  IN IF Truthy(a.permute) THEN RenameColumns(numeric, LmPermuteRename) ELSE numeric

\* lines 1575-1598: the coefficient table
LmResults(a, x, b, se, t, ci, df, p) ==
  LET stacked == [t |-> "DataFrame",
                  index |-> x.columns,
                  columns |-> LmCoefColumns,
                  rows |-> [i \in DOMAIN x.columns |->
                              << NumText(b[i]), NumText(ci.ci_l[i]), NumText(ci.ci_u[i]),
                                 NumText(se[i]), NumText(df), NumText(t[i]),
                                 NumText(p[i]), StrText(sig_stars(p[i])) >>]]
      numeric == ToNumericColumns(stacked, LmNumericColumns)
  IN IF Truthy(a.permute) THEN RenameColumns(numeric, LmPermuteRename) ELSE numeric

\* lines 1493-1620, once _ols has returned est
LmFinish(m4, m, a, rng, d, est) ==
  LET df0 == Only({v : v \in {LmDegreesOfFreedom(m, a, d.x, d.cluster)}})
      boot == a.conf_int = "boot"
      perm == Truthy(a.permute)
  IN Only({ [m |-> [m4 EXCEPT
                      !.warnings = IF LmWelchWarns(m, a, d.cluster)
                                   THEN LmWarn(@, WelchWarning) ELSE @,
                      !.coefs = LmResults(a, d.x, est.b, est.se, est.t, ci,
                                          IF perm THEN pm.df ELSE dfv,
                                          IF perm THEN pm.p
                                          ELSE [i \in DOMAIN est.t |-> TwoSidedP(est.t[i], dfv)]),
                      !.fitted = TRUE,
                      !.resid = est.res,
                      !.fits = [t |-> "array", of |-> "fits", ranked |-> d.x.ranked],
                      !.data = SetColumn(SetColumn(@, "fits",
                                                   [t |-> "array", of |-> "fits",
                                                    ranked |-> d.x.ranked]),
                                         "residuals", est.res),
                      !.rsquared = PyFloat,
                      !.rsquared_adj = PyFloat,
                      !.logLike = PyFloat,
                      !.AIC = PyFloat,
                      !.BIC = PyFloat],
             pools |-> (IF boot THEN <<ci.pool>> ELSE <<>>) \o (IF perm THEN <<pm.pool>> ELSE <<>>)] :
            dfv \in {df0},
            ci \in {IF boot THEN LmBootstrap(m, a, rng, d) ELSE LmStandardBounds(est.b, est.se, df0)},
            pm \in {IF perm THEN LmPermutation(a, rng, d, est.t) ELSE [pool |-> <<>>]} })

\* a test that finds no permutation count low
LmLowPermuteNever(permute) == FALSE

\* line 1389: permute and permute < 500
LmLowPermute(permute) == Truthy(permute) /\ permute.n < LowPermute

\* the states the random generator may be in; a call that draws no seed
\* behaves the same in all of them
RngStates(draws) == IF draws THEN 0..MaxRng ELSE {0}

NoTrace == [ols |-> <<>>, pools |-> <<>>]

\* Lm.fit(robust, conf_int, permute, rank, n_boot, n_jobs, cluster, weights,
\* wls_dof_correction)
LmFit(m, a, rng) ==
  LET \* lines 1389-1392
      m0 == [m EXCEPT !.warnings =
               IF LmLowPermute(a.permute) THEN LmWarn(@, PermWarning) ELSE @]
      \* lines 1393-1405
      m1 == [m0 EXCEPT !.se_type =
               IF Truthy(a.robust)
               THEN PyStr("robust" \o " (" \o LmRobustName(a.robust).s \o ")")
               ELSE PyStr("non-robust")]
      \* lines 1444-1461
      m2 == [m1 EXCEPT
               !.ci_type = IF a.conf_int = "boot"
                           THEN PyStr(a.conf_int \o " (" \o ToString(a.n_boot) \o ")")
                           ELSE PyStr(a.conf_int),
               !.sig_type = IF a.conf_int = "boot" /\ a.permute.t = "None"
                            THEN PyStr("bootstrapped")
                            ELSE IF Truthy(a.permute)
                            THEN PyStr("permutation" \o " (" \o ToString(a.permute.n) \o ")")
                            ELSE PyStr("parametric"),
               !.ranked_data = a.rank]
  IN IF Truthy(a.robust) /\ Truthy(a.cluster) /\ ~HasColumn(m.data, a.cluster.s)
     THEN [m |-> m1, outcome |-> Raise("ValueError", ClusterError), trace |-> NoTrace]
     ELSE IF IsStr(a.weights) /\ ~HasColumn(m.data, a.weights.s)
     THEN [m |-> m2, outcome |-> Raise("ValueError", WeightsError), trace |-> NoTrace]
     ELSE Only({
       LET \* lines 1475-1482
           m4 == [m2 EXCEPT
                    !.estimator = IF a.weights.t = "None" THEN PyStr("OLS") ELSE PyStr("WLS"),
                    !.design_matrix = d.x]
           olsargs == [robust |-> d.robust, cluster |-> d.cluster, weights |-> d.weights,
                       x |-> d.x, y |-> d.y]
       IN Only({
            IF ~o.ok
            THEN [m |-> m4, outcome |-> o, trace |-> [ols |-> <<olsargs>>, pools |-> <<>>]]
            ELSE IF d.cluster.t = "str"
            THEN [m |-> m4,
                  outcome |-> Raise("AttributeError", "'str' object has no attribute 'nunique'"),
                  trace |-> [ols |-> <<olsargs>>, pools |-> <<>>]]
            ELSE Only({ [m |-> f.m, outcome |-> Ok(PyNone),
                         trace |-> [ols |-> <<olsargs>>, pools |-> f.pools]] :
                        f \in {LmFinish(m4, m, a, rng, d, o.v)} }) :
            o \in {ols(d.x, d.y, d.robust, d.cluster, d.weights)} }) :
       d \in {LmDesign(m, a)} })

(***************************************************************************)
(* Lmer: the constructor.                                                  *)
(***************************************************************************)
\* a family list that lets every family through
AllFamiliesImplemented == Families

\* lines 69-75
implemented_fams == {"gaussian", "binomial", "gamma", "inverse_gaussian", "poisson"}

\* Lmer.__init__(formula, data, family)
LmerInit(formula, data, family) ==
  IF family \notin implemented_fams
  THEN Raise("ValueError",
             "Family must be one of: gaussian, binomial, gamma, inverse_gaussian or poisson!")
  ELSE Ok([cls |-> "Lmer",
           family |-> family,
           fitted |-> FALSE,
           formula |-> StripSpaces(formula),
           data |-> data,
           grps |-> PyNone,
           AIC |-> PyNone,
           logLike |-> PyNone,
           warnings |-> <<>>,
           ranef_var |-> PyNone,
           ranef_corr |-> PyNone,
           ranef |-> PyNone,
           fixef |-> PyNone,
           design_matrix |-> PyNone,
           resid |-> PyNone,
           coefs |-> PyNone,
           model_obj |-> PyNone,
           factors |-> PyNone,
           ranked_data |-> FALSE,
           marginal_estimates |-> PyNone,
           marginal_contrasts |-> PyNone,
           sig_type |-> PyNone,
           factors_prev_ |-> PyNone,
           anova_results |-> Unset,
           _permute |-> Unset,
           _conf_int |-> Unset,
           _REML |-> Unset,
           fits |-> Unset])

(***************************************************************************)
(* Tables (pandas DataFrames): column names, row names, rows of cells.     *)
(***************************************************************************)
HasCol(table, name) == name \in Range(table.columns)

ColIndex(table, name) ==
  CHOOSE j \in DOMAIN table.columns :
    table.columns[j] = name /\ \A k \in 1..(j - 1) : table.columns[k] # name

\* df[names]
SelectColumns(table, names) ==
  [table EXCEPT
     !.columns = names,
     !.rows = [i \in DOMAIN table.rows |->
                 [j \in DOMAIN names |-> table.rows[i][ColIndex(table, names[j])]]]]

\* df.columns = names
NameColumns(table, names) == [table EXCEPT !.columns = names]

\* df[name] = values: replaces the column, or appends it as the last one
AssignColumn(table, name, values) ==
  IF HasCol(table, name)
  THEN [table EXCEPT !.rows = [i \in DOMAIN table.rows |->
                                 [table.rows[i] EXCEPT ![ColIndex(table, name)] = values[i]]]]
  ELSE [table EXCEPT !.columns = Append(@, name),
                     !.rows = [i \in DOMAIN table.rows |-> Append(table.rows[i], values[i])]]

\* df.drop(columns=names), all of them present
DropColumns(table, names) ==
  SelectColumns(table, SelectSeq(table.columns, LAMBDA c : c \notin names))

\* df[name] as a sequence of cells
Column(table, name) == [i \in DOMAIN table.rows |-> table.rows[i][ColIndex(table, name)]]

(***************************************************************************)
(* Lm.predict.                                                             *)
(***************************************************************************)
PredictError == "Column names do not match all fixed effects model terms!"

\* the new data a caller may pass: with the predictor, and without it
PredictInputs ==
  {[columns |-> <<"X">>, rows |-> <<[X |-> 2], [X |-> 5]>>],
   [columns |-> <<"Z">>, rows |-> <<[Z |-> 1]>>]}

\* np.dot(u, v) of two vectors of the same length
Dot(u, v) == RSum([j \in DOMAIN u |-> RMul(u[j], v[j])])

\* Lm.predict(data)
LmPredict(m, data) ==
  IF m.design_matrix = Unset
  THEN Raise("AttributeError", "'Lm' object has no attribute 'design_matrix'")
  ELSE LET required_cols == Tail(m.design_matrix.columns)
       IN IF \E j \in DOMAIN required_cols : required_cols[j] \notin Range(data.columns)
          THEN Raise("ValueError", PredictError)
          ELSE IF m.coefs = PyNone
          THEN Raise("AttributeError", "'NoneType' object has no attribute 'loc'")
          ELSE LET X == [r \in DOMAIN data.rows |->
                           [j \in DOMAIN required_cols |-> RInt(data.rows[r][required_cols[j]])]]
                   coefs == Column(m.coefs, "Estimate")
               IN IF m.coefs.index[1] = "Intercept"
                  THEN Ok([r \in DOMAIN X |-> Dot(<<RInt(1)>> \o X[r], coefs)])
                  ELSE Ok([r \in DOMAIN X |-> Dot(X[r], Tail(coefs))])

(***************************************************************************)
(* The R side of Lmer.fit: what lme4 / lmerTest hand back.  r says how the *)
(* R session behaves in this call: whether the fit raises, the optimizer's *)
(* messages, whether lmerTest fails to give p-values, and whether a later  *)
(* R call raises.                                                          *)
(***************************************************************************)
RBehaviours(family) ==
  {[fit_error |-> TRUE, messages |-> <<>>, choked |-> FALSE, post_error |-> FALSE]}
  \cup [fit_error : {FALSE},
        messages : {<<>>, <<"Model failed to converge">>},
        choked : IF family = "gaussian" THEN BOOLEAN ELSE {FALSE},
        post_error : BOOLEAN]

FixedEffects == <<"(Intercept)", "X">>

\* cbind(out.coef, out.ci), plus the odds and probabilities for binomial
REstimates(family, r, conf_int) ==
  LET est(i) == RInt(2 * i)
      se(i) == RInt(1)
      stat(i) == RDiv(est(i), se(i))
      half(i) == IF conf_int = "boot" THEN RInt(1) ELSE RMul(RInt(2), se(i))
      lo(i) == RSub(est(i), half(i))
      hi(i) == RAdd(est(i), half(i))
      pv(i) == TwoSidedP(stat(i), RInt(4))
      derived(f, v) == [R |-> f, of |-> v]
      row(i) ==
        IF family = "binomial"
        THEN << est(i), se(i), stat(i), pv(i), lo(i), hi(i),
                derived("exp", est(i)), derived("exp", lo(i)), derived("exp", hi(i)),
                derived("plogis", est(i)), derived("plogis", lo(i)), derived("plogis", hi(i)) >>
        ELSE IF family = "gaussian" /\ ~r.choked
        THEN << est(i), se(i), RInt(4), stat(i), pv(i), lo(i), hi(i) >>
        ELSE IF family = "gaussian"
        THEN << est(i), se(i), stat(i), lo(i), hi(i) >>
        ELSE << est(i), se(i), stat(i), pv(i), lo(i), hi(i) >>
  IN [t |-> "DataFrame",
      index |-> FixedEffects,
      columns |-> [j \in DOMAIN row(1) |-> "V" \o ToString(j)],
      rows |-> [i \in DOMAIN FixedEffects |-> row(i)]]

\* utils._return_t of the model refitted on the k-th shuffle
LmerPermT(seed) == [i \in DOMAIN FixedEffects |-> RInt(2 * ((seed + i) % 3) - 2)]

(***************************************************************************)
(* Lmer.fit.                                                               *)
(***************************************************************************)
RankGroupError == "rank_group must be provided if rank is True"
FactorRankWarning == "Factors and ranks requested, but factors are not excluded from rank conversion. Are you sure you wanted to do this?"

LmerFitArgs ==
  [conf_int : {"Wald", "boot"},
   n_boot : {NBoot},
   factors : {PyNone, [t |-> "dict", keys |-> {"G"}]},
   permute : {PyNone, PyInt(NPerm)},
   rank : BOOLEAN,
   rank_group : {"", "G"},
   rank_exclude_cols : {<<>>, <<"G">>}]

GaussianColumns == <<"Estimate", "SE", "DF", "T-stat", "P-val", "2.5_ci", "97.5_ci">>
GaussianOrder == <<"Estimate", "2.5_ci", "97.5_ci", "SE", "DF", "T-stat", "P-val">>
TStatColumns == <<"Estimate", "SE", "T-stat", "P-val", "2.5_ci", "97.5_ci">>
TStatOrder == <<"Estimate", "2.5_ci", "97.5_ci", "SE", "T-stat", "P-val">>
ZStatColumns == <<"Estimate", "SE", "Z-stat", "P-val", "2.5_ci", "97.5_ci">>
ZStatOrder == <<"Estimate", "2.5_ci", "97.5_ci", "SE", "Z-stat", "P-val">>
ChokedColumns == <<"Estimate", "SE", "T-stat", "2.5_ci", "97.5_ci">>
ChokedOrder == <<"Estimate", "2.5_ci", "97.5_ci", "SE", "T-stat">>
BinomialColumns ==
  <<"Estimate", "SE", "Z-stat", "P-val", "2.5_ci", "97.5_ci", "OR", "OR_2.5_ci", "OR_97.5_ci",
    "Prob", "Prob_2.5_ci", "Prob_97.5_ci">>
BinomialOrder ==
  <<"Estimate", "2.5_ci", "97.5_ci", "SE", "OR", "OR_2.5_ci", "OR_97.5_ci", "Prob",
    "Prob_2.5_ci", "Prob_97.5_ci", "Z-stat", "P-val">>

\* lines 395-532: the R estimates with pymer4's column names, in its order
LmerNamedTable(family, permute, df) ==
  LET dfshape == Len(df.columns)
  IN IF family \in {"gaussian", "gamma", "inverse_gaussian", "poisson"}
     THEN IF dfshape = 7
          THEN SelectColumns(NameColumns(df, GaussianColumns), GaussianOrder)
          ELSE IF dfshape = 6
          THEN IF family \in {"gamma", "inverse_gaussian"}
               THEN SelectColumns(NameColumns(df, TStatColumns), TStatOrder)
               ELSE SelectColumns(NameColumns(df, ZStatColumns), ZStatOrder)
          ELSE IF dfshape = 5 /\ family = "gaussian" /\ ~Truthy(permute)
          THEN SelectColumns(NameColumns(df, ChokedColumns), ChokedOrder)
          ELSE df
     ELSE SelectColumns(NameColumns(df, BinomialColumns), BinomialOrder)

\* the column holding the test statistic (lines 553-556)
LmerStatColumn(family) ==
  IF family \in {"gaussian", "gamma", "inverse_gaussian"} THEN "T-stat" ELSE "Z-stat"

\* lines 534-563: the permuted p-values and the permutation count
LmerPermute(family, permute, rng, df) ==
  LET perms == [k \in 1..permute.n |-> LmerPermT(SeedAt(rng, k - 1))]
      stat == Column(df, LmerStatColumn(family))
      pvals == [c \in DOMAIN df.rows |-> perm_find([k \in DOMAIN perms |-> perms[k][c]], stat[c])]
      count == [c \in DOMAIN df.rows |-> RInt(permute.n)]
      withp == AssignColumn(df, "P-val", pvals)
  IN IF HasCol(withp, "DF")
     THEN RenameColumns(AssignColumn(withp, "DF", count), LmPermuteRename)
     ELSE RenameColumns(AssignColumn(withp, "Num_perm", count),
                        [c \in {"P-val"} |-> "Perm-P-val"])

\* lines 565-568
LmerSig(df) ==
  IF HasCol(df, "P-val")
  THEN AssignColumn(df, "Sig", [i \in DOMAIN df.rows |-> StrText(sig_stars(Column(df, "P-val")[i]))])
  ELSE IF HasCol(df, "Perm-P-val")
  THEN AssignColumn(df, "Sig",
                    [i \in DOMAIN df.rows |-> StrText(sig_stars(Column(df, "Perm-P-val")[i]))])
  ELSE df

\* lines 570-577, with P-val and Sig present
LmerBootSig(df) ==
  LET dropped == DropColumns(df, {"P-val", "Sig"})
      nodf == IF HasCol(dropped, "DF") THEN DropColumns(dropped, {"DF"}) ELSE dropped
  IN AssignColumn(nodf, "Sig",
       [i \in DOMAIN nodf.rows |->
          StrText(IF RLt(RInt(0), RMul(Column(nodf, "2.5_ci")[i], Column(nodf, "97.5_ci")[i]))
                  THEN "*" ELSE "")])

\* lines 579-583: cols[:-4] + ["Num_perm"] + cols[-4:-2] + [cols[-1]]
LmerPermuteOrder(cols) ==
  LET n == Len(cols)
  IN SubSeq(cols, 1, n - 4) \o <<"Num_perm">> \o SubSeq(cols, n - 3, n - 2) \o <<cols[n]>>

\* lines 394-583: the coefficient table, or the KeyError a missing column raises
LmerCoefs(family, a, r, rng) ==
  Only({
    IF Truthy(a.permute) /\ ~HasCol(named, LmerStatColumn(family))
    THEN Raise("KeyError", LmerStatColumn(family))
    ELSE Only({
      IF a.conf_int = "boot" /\ a.permute.t = "None" /\ ~HasCol(sig, "P-val")
      THEN Raise("KeyError", "['P-val' 'Sig'] not found in axis")
      ELSE Only({
        Ok(IF Truthy(a.permute) THEN SelectColumns(final, LmerPermuteOrder(final.columns))
           ELSE final) :
        final \in {IF a.conf_int = "boot" /\ a.permute.t = "None" THEN LmerBootSig(sig) ELSE sig} }) :
      sig \in {LmerSig(IF Truthy(a.permute) THEN LmerPermute(family, a.permute, rng, named)
                       ELSE named)} }) :
    named \in {LmerNamedTable(family, a.permute, REstimates(family, r, a.conf_int))} })

\* Lmer.fit(conf_int, n_boot, factors, permute, rank, rank_group,
\* rank_exclude_cols)
LmerFit(m, a, r, rng) ==
  LET \* lines 297-305
      m1 == [m EXCEPT !._permute = a.permute, !._conf_int = PyStr(a.conf_int),
                      !._REML = PyBool(TRUE),
                      !.factors = IF Truthy(a.factors) THEN a.factors ELSE @]
      \* lines 306-315
      m2 == [m1 EXCEPT !.warnings =
               IF a.rank /\ Truthy(a.factors) /\ a.factors.keys # Range(a.rank_exclude_cols)
               THEN Append(@, FactorRankWarning) ELSE @]
      \* lines 316-322
      m3 == [m2 EXCEPT !.sig_type =
               IF a.conf_int = "boot" THEN PyStr("bootstrapped")
               ELSE IF Truthy(a.permute)
               THEN PyStr("permutation" \o " (" \o ToString(a.permute.n) \o ")")
               ELSE PyStr("parametric")]
      \* lines 323-393
      m4 == [m3 EXCEPT !.model_obj = [t |-> "merMod", family |-> m.family],
                       !.grps = [t |-> "dict", keys |-> {"G"}],
                       !.AIC = PyFloat,
                       !.logLike = PyFloat,
                       !.warnings = IF r.messages # <<>> THEN @ \o r.messages ELSE <<>>]
  IN IF a.rank /\ a.rank_group = ""
     THEN [m |-> m1, outcome |-> Raise("ValueError", RankGroupError)]
     ELSE IF r.fit_error
     THEN [m |-> m3, outcome |-> Raise("RRuntimeError", "Error in lme4")]
     ELSE Only({
       IF ~c.ok
       THEN [m |-> m4, outcome |-> c]
       ELSE IF r.post_error
       THEN [m |-> [m4 EXCEPT !.coefs = c.v, !.fitted = TRUE],
             outcome |-> Raise("RRuntimeError", "Error in R")]
       ELSE [m |-> [m4 EXCEPT
                      \* lines 584-585
                      !.coefs = c.v,
                      !.fitted = TRUE,
                      \* lines 587-662
                      !.ranef_var = [t |-> "DataFrame", of |-> "varcor"],
                      !.ranef_corr = PyNone,
                      !.fixef = [t |-> "DataFrame", of |-> "coef", columns |-> c.v.index],
                      !.ranef = [t |-> "DataFrame", of |-> "ranef"],
                      !.design_matrix = [columns |-> c.v.index, nrows |-> Len(m.data.rows),
                                         ranked |-> FALSE],
                      \* lines 664-689
                      !.data = SetColumn(SetColumn(@, "residuals", m.resid), "fits",
                                         [t |-> "array", of |-> "fitted"]),
                      !.fits = [t |-> "array", of |-> "fitted"]],
             outcome |-> Ok(PyNone)] :
       c \in {LmerCoefs(m.family, a, r, rng)} })

(***************************************************************************)
(* Lm2: the constructor.                                                   *)
(***************************************************************************)
\* Lm2.__init__(formula, data, group, family)
Lm2Init(formula, data, group, family) ==
  IF family # "gaussian"
  THEN Raise("NotImplementedError", "Currently only linear (family ='gaussian') models supported! ")
  ELSE IF ~IsStr(group)
  THEN Raise("TypeError", "group must be a string or list")
  ELSE Ok([cls |-> "Lm2",
           family |-> family,
           group |-> group,
           fitted |-> FALSE,
           formula |-> StripSpaces(formula),
           data |-> data,
           AIC |-> PyNone,
           logLike |-> PyNone,
           warnings |-> <<>>,
           resid |-> PyNone,
           fixef |-> PyNone,
           coefs |-> PyNone,
           model_obj |-> PyNone,
           factors |-> PyNone,
           ci_type |-> PyNone,
           se_type |-> PyNone,
           sig_type |-> PyNone,
           ranked_data |-> FALSE,
           iscorrs |-> FALSE,
           rsquared |-> Unset,
           rsquared_adj |-> Unset,
           BIC |-> Unset])

\* the group argument as callers pass it: a column name, a list of names, or
\* something that is neither
Lm2Groups == {PyStr("G"), [t |-> "list", v |-> <<"G", "K">>], PyInt(3)}

(***************************************************************************)
(* summary() of the three classes, and Lm.to_corrs.                        *)
(***************************************************************************)
IsNumber(cell) == DOMAIN cell = {"n", "d"}

\* round(x, 3), halves to the even neighbour
round3(x) ==
  IF IsNaN(x) THEN NaN
  ELSE LET q == RMul(x, RInt(1000))
           f == RFloor(q)
           frac == RSub(q, RInt(f))
           up == IF frac = Rat(1, 2) THEN f % 2 = 1 ELSE RLt(Rat(1, 2), frac)
       IN Rat(IF up THEN f + 1 ELSE f, 1000)

\* DataFrame.round(3): numeric cells are rounded, other cells are kept
Round(table) ==
  [table EXCEPT !.rows =
     [i \in DOMAIN table.rows |->
        [j \in DOMAIN table.rows[i] |->
           IF IsNumber(table.rows[i][j]) THEN round3(table.rows[i][j])
           ELSE table.rows[i][j]]]]

\* a summary whose guard also lets an unfitted model through
SummaryUnguarded(m, msg) ==
  IF m.coefs = PyNone
  THEN Raise("AttributeError", "'NoneType' object has no attribute 'round'")
  ELSE Ok(Round(m.coefs))

\* Lm.summary and Lm2.summary: msg is the class's own message
Summary(m, msg) ==
  IF ~m.fitted
  THEN Raise("RuntimeError", msg)
  ELSE Ok(Round(m.coefs))

LmSummary(m) == Summary(m, "Model must be fit to generate summary!")

Lm2Summary(m) == Summary(m, "Model must be fitted to generate summary!")

\* Lmer.summary: it also prints self.ranef_var.round(3)
LmerSummary(m) ==
  IF ~m.fitted
  THEN Raise("RuntimeError", "Model must be fitted to generate summary!")
  ELSE IF m.ranef_var = PyNone
  THEN Raise("AttributeError", "'NoneType' object has no attribute 'round'")
  ELSE Ok(Round(m.coefs))

\* scipy.stats.pearsonr(dv_m_resid, pred_m_resid)[0]
pearsonr(corr_type) == IF corr_type = "semi" THEN Rat(1, 2) ELSE Rat(3, 5)

\* np.arctanh, to the third-order term of its series
arctanh(x) == IF IsNaN(x) THEN NaN ELSE RAdd(x, RDiv(RMul(x, RMul(x, x)), RInt(3)))

\* Lm.to_corrs(corr_type, ztrans_corrs)
LmToCorrs(m, corr_type, ztrans_corrs) ==
  IF ~m.fitted
  THEN Raise("RuntimeError", "Model must be fit before partial correlations can be computed")
  ELSE IF corr_type \notin {"semi", "partial"}
  THEN Raise("ValueError", "corr_type must be 'semi' or 'partial'")
  ELSE LET corrs == <<NaN>> \o [k \in 1..(Len(m.design_matrix.columns) - 1) |->
                                  pearsonr(corr_type)]
       IN Ok([t |-> "Series",
              index |-> m.coefs.index,
              values |-> IF ztrans_corrs THEN [k \in DOMAIN corrs |-> arctanh(corrs[k])]
                         ELSE corrs])

\* the corr_type values callers pass
CorrTypes == {"semi", "partial", "pearson"}

(***************************************************************************)
(* Lmer.post_hoc and Lmer.anova.  What R returns is a choice: an error, or *)
(* a result.                                                               *)
(***************************************************************************)
PyList(v) == [t |-> "list", v |-> v]

\* [x] for a value that is not a list
AsList(x) == IF x.t = "list" THEN x.v ELSE <<x.s>>

\* self.factors.keys(), for a model whose factors is a dict
FactorKeys(m) == m.factors.keys

\* "+".join(names)
RECURSIVE JoinPlus(_)
JoinPlus(names) ==
  IF names = <<>> THEN ""
  ELSE IF Len(names) = 1 THEN names[1]
  ELSE names[1] \o "+" \o JoinPlus(Tail(names))

GroupingError == "All grouping_vars must be existing categorical variables (i.e. factors)"
MixedMarginalError ==
  "With more than one marginal variable, all variables must be categorical factors. Mixing continuous and categorical variables is not supported. Try passing additional categorical factors to grouping_vars"

\* the arguments callers pass: a name, a list of names, or nothing
MarginalVars == {PyNone, PyStr("G"), PyStr("X"), PyList(<<"G", "K">>)}
GroupingVars == {PyNone, PyStr("G"), PyStr("K"), PyList(<<"G">>), PyList(<<"K">>),
                 PyList(<<"G", "K">>)}

\* what the R call of post_hoc or anova does
RCallBehaviours == {"error", "full", "short"}

\* lines 840-849: the test of grouping_vars
GroupingRejected(m, grouping_vars) ==
  IF Truthy(grouping_vars) /\ grouping_vars.t # "list"
  THEN IF m.factors = PyNone
       THEN Raise("AttributeError", "'NoneType' object has no attribute 'keys'")
       ELSE IF \E e \in Range(AsList(grouping_vars)) : e \notin FactorKeys(m)
       THEN Raise("ValueError", GroupingError)
       ELSE Ok(PyNone)
  ELSE Ok(PyNone)

\* lines 851-950: the emmeans or lstrends call the arguments select
PostHocCall(m, marginal, grouping, p_adjust) ==
  LET isfactor(var) == Truthy(m.factors) /\ var \in FactorKeys(m)
      cont == SelectSeq(marginal, LAMBDA var : ~isfactor(var))
      factor == SelectSeq(marginal, LAMBDA var : isfactor(var))
  IN IF cont # <<>>
     THEN IF factor # <<>> THEN Raise("ValueError", MixedMarginalError)
          ELSE IF Len(cont) > 1
          THEN Raise("ValueError", "Marginal variables can only contain one continuous variable")
          ELSE IF grouping = <<>>
          THEN Raise("ValueError", "grouping_vars are required with a continuous marginal_vars")
          ELSE IF Len(grouping) > 1
          THEN Ok([fn |-> "lstrends", pairwise |-> grouping[1],
                   by |-> JoinPlus(Tail(grouping)), var |-> cont[1], adjust |-> p_adjust])
          ELSE Ok([fn |-> "lstrends", pairwise |-> grouping[1],
                   by |-> "", var |-> cont[1], adjust |-> p_adjust])
     ELSE IF factor # <<>>
     THEN Ok([fn |-> "emmeans", pairwise |-> JoinPlus(factor),
              by |-> IF grouping # <<>> THEN JoinPlus(grouping) ELSE "",
              var |-> "", adjust |-> p_adjust])
     ELSE Raise("ValueError", "marginal_vars are not in model!")

\* Lmer.post_hoc(marginal_vars, grouping_vars, p_adjust="tukey"): the model
\* afterwards, the outcome, and the R calls made
LmerPostHoc(m, marginal_vars, grouping_vars, r) ==
  IF ~Truthy(marginal_vars)
  THEN [m |-> m, outcome |-> Raise("ValueError", "Must provide marginal_vars"), rcalls |-> <<>>]
  ELSE IF ~m.fitted
  THEN [m |-> m, rcalls |-> <<>>,
        outcome |-> Raise("RuntimeError", "Model must be fitted to generate post-hoc comparisons")]
  ELSE IF ~GroupingRejected(m, grouping_vars).ok
  THEN [m |-> m, outcome |-> GroupingRejected(m, grouping_vars), rcalls |-> <<>>]
  ELSE Only({
    IF ~c.ok THEN [m |-> m, outcome |-> c, rcalls |-> <<>>]
    ELSE IF r = "error"
    THEN [m |-> m, outcome |-> Raise("RRuntimeError", "Error in R"), rcalls |-> <<c.v>>]
    ELSE [m |-> [m EXCEPT
                   !.marginal_estimates = [t |-> "DataFrame", of |-> "summary(res)[0]",
                                           call |-> c.v],
                   !.marginal_contrasts = [t |-> "DataFrame", of |-> "summary(res)[1]",
                                           call |-> c.v]],
          outcome |-> Ok([t |-> "tuple", of |-> <<"marginal_estimates", "marginal_contrasts">>]),
          rcalls |-> <<c.v>>] :
    c \in {PostHocCall(m, AsList(marginal_vars),
                       IF Truthy(grouping_vars) THEN AsList(grouping_vars) ELSE <<>>,
                       "tukey")} })

AnovaError == "Model must be fit before ANOVA table can be generated!"
AnovaColumns == <<"SS", "MS", "NumDF", "DenomDF", "F-stat", "P-val">>
AnovaShortColumns == <<"DF", "SS", "MS", "F-stat">>

\* the default n_boot of Lmer.fit
LmerDefaultNBoot == 500

\* anova(model) in R: one row per fixed-effect term
RAnova(r) ==
  [t |-> "DataFrame",
   index |-> <<"X">>,
   columns |-> IF r = "full" THEN <<"Sum Sq", "Mean Sq", "NumDF", "DenDF", "F value", "Pr(>F)">>
               ELSE <<"npar", "Sum Sq", "Mean Sq", "F value">>,
   rows |-> IF r = "full"
            THEN << <<RInt(8), RInt(8), RInt(1), RInt(4), RInt(4), TwoSidedP(RInt(2), RInt(4))>> >>
            ELSE << <<RInt(1), RInt(8), RInt(8), RInt(4)>> >>]

\* Lmer._refit_orthogonal
LmerRefitOrthogonal(m, fitR, rng) ==
  LmerFit([m EXCEPT !.factors_prev_ = m.factors],
          [conf_int |-> m._conf_int.s,
           n_boot |-> LmerDefaultNBoot,
           factors |-> [t |-> "dict", keys |-> FactorKeys(m)],
           permute |-> m._permute,
           rank |-> FALSE,
           rank_group |-> "",
           rank_exclude_cols |-> <<>>],
          fitR, rng)

\* lines 193-198: the guard of Lmer.anova
AnovaGuard(m) == ~Truthy(m.factors) /\ ~m.fitted

\* Lmer.anova(force_orthogonal): the model afterwards, the outcome, and the
\* R calls made after the guard
LmerAnova(m, force_orthogonal, fitR, rng, r) ==
  IF AnovaGuard(m)
  THEN [m |-> m, outcome |-> Raise("ValueError", AnovaError), rcalls |-> <<>>]
  ELSE Only({
    IF ~refit.outcome.ok
    THEN [m |-> refit.m, outcome |-> refit.outcome, rcalls |-> <<"lmer">>]
    ELSE IF refit.m.model_obj = PyNone \/ r = "error"
    THEN [m |-> refit.m, outcome |-> Raise("RRuntimeError", "Error in R"),
          rcalls |-> (IF Truthy(m.factors) /\ force_orthogonal THEN <<"lmer">> ELSE <<>>)
                     \o <<"anova">>]
    ELSE Only({
      [m |-> [refit.m EXCEPT !.anova_results = res],
       outcome |-> Ok(res),
       rcalls |-> (IF Truthy(m.factors) /\ force_orthogonal THEN <<"lmer">> ELSE <<>>)
                  \o <<"anova">>] :
      res \in {IF r = "full"
               THEN LmerSig(NameColumns(RAnova(r), AnovaColumns))
               ELSE NameColumns(RAnova(r), AnovaShortColumns)} }) :
    refit \in {IF Truthy(m.factors) /\ force_orthogonal
               THEN LmerRefitOrthogonal(m, fitR, rng)
               ELSE [m |-> m, outcome |-> Ok(PyNone)]} })

(***************************************************************************)
(* Lm2.fit: a first-level regression per group, then an intercept-only Lm  *)
(* on each first-level coefficient.                                        *)
(***************************************************************************)
Lm2FitDefaults ==
  [robust |-> PyBool(FALSE), conf_int |-> "standard", permute |-> PyNone,
   perm_on |-> "t-stat", rank |-> FALSE, n_boot |-> NBoot, n_jobs |-> 1,
   to_corrs |-> PyBool(FALSE), ztrans_corrs |-> TRUE, cluster |-> PyNone]

Lm2FitArgDomain ==
  [robust : {PyBool(FALSE), PyBool(TRUE), PyStr("hc4")},
   conf_int : {"standard", "boot"},
   permute : {PyNone, PyInt(NPerm)},
   perm_on : {"t-stat", "mean", "median"},
   rank : BOOLEAN,
   n_boot : {NBoot},
   n_jobs : {1},
   to_corrs : {PyBool(FALSE), PyStr("semi"), PyStr("pearson")},
   ztrans_corrs : BOOLEAN,
   cluster : {PyNone, PyStr("site")}]

\* at most this many arguments of an Lm2.fit call differ from their defaults
MaxLm2NonDefault == 2

Lm2FitArgs ==
  {a \in Lm2FitArgDomain :
     Cardinality({f \in DOMAIN a : a[f] # Lm2FitDefaults[f]}) <= MaxLm2NonDefault}

\* the index of the first row of group grp
FirstRow(dat, group, grp) ==
  CHOOSE i \in DOMAIN dat.rows :
    dat.rows[i][group] = grp /\ \A j \in 1..(i - 1) : dat.rows[j][group] # grp

\* utils._ols_group(dat, formula, group, grp, rank): the coefficients of the
\* regression fitted to the rows of one group
ols_group(dat, formula, group, grp, ranked) ==
  LET x == dmatrices(formula, dat).x
  IN [j \in DOMAIN x.columns |->
        RAdd(OlsEstimate(x.columns[j], ranked, FALSE), RInt(FirstRow(dat, group, grp)))]

\* utils._corr_group(dat, formula, group, grp, rank, corr_type): one
\* correlation per predictor, none for the intercept
corr_group(dat, formula, group, grp, ranked, corr_type) ==
  LET x == dmatrices(formula, dat).x
  IN [j \in 1..(Len(x.columns) - 1) |->
        Rat(FirstRow(dat, group, grp) + (IF corr_type = "partial" THEN 1 ELSE 0), 10)]

\* utils._permute_sign(data, seed, return_stat): the statistic of the
\* sign-flipped estimates that the seed selects
permute_sign(data, seed, return_stat) == RInt(2 * ((seed + 1) % 3) - 2)

Lm2PermuteColumns ==
  <<"Estimate", "2.5_ci", "97.5_ci", "SE", "Num_perm", "T-stat", "Perm-P-val", "Sig">>

\* lines 1857-1884: the attributes set from the arguments, and the argument
\* errors
Lm2Setup(m, a) ==
  LET robust == IF Truthy(a.robust) /\ a.robust.t = "bool" THEN PyStr("hc0") ELSE a.robust
      m1 == [m EXCEPT !.se_type = IF Truthy(a.robust)
                                  THEN PyStr("robust" \o " (" \o robust.s \o ")")
                                  ELSE PyStr("non-robust")]
      m2 == [m1 EXCEPT !.ci_type = IF a.conf_int = "boot"
                                   THEN PyStr(a.conf_int \o " (" \o ToString(a.n_boot) \o ")")
                                   ELSE PyStr(a.conf_int)]
      m3 == [m2 EXCEPT !.sig_type =
               IF a.conf_int = "boot" /\ a.permute.t = "None" THEN PyStr("bootstrapped")
               ELSE IF Truthy(a.permute)
               THEN PyStr("permutation" \o " (" \o ToString(a.permute.n) \o ")")
               ELSE PyStr("parametric")]
  IN IF Truthy(a.robust) /\ Truthy(a.cluster) /\ ~HasColumn(m.data, a.cluster.s)
     THEN [m |-> m1, outcome |-> Raise("ValueError", ClusterError)]
     ELSE IF IsStr(a.to_corrs) /\ a.to_corrs.s \notin {"semi", "partial"}
     THEN [m |-> m2, outcome |-> Raise("ValueError", "to_corrs must be 'semi' or 'partial'")]
     ELSE IF ~(a.conf_int = "boot" /\ a.permute.t = "None") /\ Truthy(a.permute)
             /\ a.perm_on \notin {"mean", "t-stat"}
     THEN [m |-> m2, outcome |-> Raise("ValueError", "perm_on must be 't-stat' or 'mean'")]
     ELSE [m |-> [m3 EXCEPT !.ranked_data = a.rank], outcome |-> Ok(robust)]

\* lines 1894-1921: the first-level estimates, one row per group
Lm2Betas(m, a) ==
  LET groups == GroupKeys(m.data, m.group.s)
  IN [g \in DOMAIN groups |->
        IF Truthy(a.to_corrs)
        THEN LET c == corr_group(m.data, m.formula, m.group.s, groups[g], a.rank, a.to_corrs.s)
             IN IF a.ztrans_corrs THEN [j \in DOMAIN c |-> arctanh(c[j])] ELSE c
        ELSE ols_group(m.data, m.formula, m.group.s, groups[g], a.rank)]

\* lines 1928-1939: Lm("Y ~ 1", data=df).fit(...) on the i-th first-level
\* estimate
Lm2SecondLevel(betas, i, robust, a, rng) ==
  LmFit(LmInit(<<"Y", " ", "~", " ", "1">>,
               [columns |-> <<"X", "Y">>,
                rows |-> [g \in DOMAIN betas |-> [X |-> 1, Y |-> betas[g][i]]],
                ranked |-> FALSE],
               "gaussian").v,
        [LmFitDefaults EXCEPT !.robust = robust, !.conf_int = a.conf_int,
                              !.n_boot = a.n_boot, !.n_jobs = a.n_jobs],
        rng)

\* lines 1940-1956: the sign-flip permutation p-value of the i-th estimate
Lm2PermP(betas, i, lmcoefs, a, rng) ==
  LET first == IF a.conf_int = "boot" THEN a.n_boot ELSE 0
      column == [g \in DOMAIN betas |-> betas[g][i]]
      perm_est == [j \in 1..a.permute.n |->
                     permute_sign(column, SeedAt(rng, first + j - 1), a.perm_on)]
  IN IF a.perm_on = "mean"
     THEN perm_find(perm_est, RDiv(RSum(column), RInt(Len(column))))
     ELSE perm_find(perm_est, Column(lmcoefs, "T-stat")[1])

\* lines 1958-2004: the coefficient table from the second-level tables
Lm2Coefs(a, index, tables, perm_ps) ==
  LET stacked == [t |-> "DataFrame",
                  columns |-> tables[1].columns,
                  index |-> index,
                  rows |-> (IF Truthy(a.to_corrs)
                            THEN <<[j \in DOMAIN tables[1].columns |-> NaN]>> ELSE <<>>)
                           \o [i \in DOMAIN tables |-> tables[i].rows[1]]]
      lead(rest) == IF Truthy(a.to_corrs) THEN <<NaN>> \o rest ELSE rest
      dropped == IF a.conf_int # "boot" THEN DropColumns(stacked, {"DF", "P-val"}) ELSE stacked
      n == Len(stacked.rows) - (IF Truthy(a.to_corrs) THEN 1 ELSE 0)
      withperm ==
        AssignColumn(
          AssignColumn(
            AssignColumn(dropped, "Num_perm", lead([i \in 1..n |-> RInt(a.permute.n)])),
            "Sig", lead([i \in 1..n |-> StrText(sig_stars(perm_ps[i]))])),
          "Perm-P-val", lead(perm_ps))
  IN IF ~Truthy(a.permute) THEN [table |-> stacked, outcome |-> Ok(PyNone)]
     ELSE IF a.conf_int # "boot" /\ ~({"DF", "P-val"} \subseteq Range(stacked.columns))
     THEN [table |-> stacked,
           outcome |-> Raise("KeyError", "['DF' 'P-val'] not found in axis")]
     ELSE IF ~(Range(Lm2PermuteColumns) \subseteq Range(withperm.columns))
     THEN [table |-> withperm, outcome |-> Raise("KeyError", "not in index")]
     ELSE [table |-> SelectColumns(withperm, Lm2PermuteColumns), outcome |-> Ok(PyNone)]

\* Lm2.fit(robust, conf_int, permute, perm_on, rank, n_boot, n_jobs,
\* to_corrs, ztrans_corrs, cluster); rngs[i] is the state of the random
\* generator when the i-th second-level model is fitted
Lm2Fit(m, a, rngs) ==
  Only({
    IF ~s.outcome.ok THEN s
    ELSE Only({
      Only({
        IF \E i \in DOMAIN fits : ~fits[i].outcome.ok
        THEN [m |-> s.m,
              outcome |-> fits[CHOOSE i \in DOMAIN fits :
                                 /\ ~fits[i].outcome.ok
                                 /\ \A j \in 1..(i - 1) : fits[j].outcome.ok].outcome]
        ELSE Only({
          IF ~coefs.outcome.ok
          THEN [m |-> [s.m EXCEPT
                         !.coefs = coefs.table,
                         !.fixef = [t |-> "DataFrame", of |-> "betas",
                                    index |-> GroupKeys(m.data, m.group.s)]],
                outcome |-> coefs.outcome]
          ELSE [m |-> [s.m EXCEPT
                         !.coefs = coefs.table,
                         !.fixef = [t |-> "DataFrame", of |-> "betas",
                                    index |-> GroupKeys(m.data, m.group.s)],
                         !.fitted = TRUE,
                         !.rsquared = NaN,
                         !.rsquared_adj = NaN,
                         !.logLike = NaN,
                         !.AIC = NaN,
                         !.BIC = NaN,
                         !.iscorrs = a.to_corrs],
                outcome |-> Ok(PyNone)] :
          coefs \in {Lm2Coefs(a, dmatrices(m.formula, m.data).x.columns,
                              [i \in DOMAIN fits |-> fits[i].m.coefs],
                              IF Truthy(a.permute)
                              THEN [i \in DOMAIN fits |->
                                      Lm2PermP(betas, i, fits[i].m.coefs, a, rngs[i])]
                              ELSE <<>>)} }) :
        fits \in {[i \in DOMAIN betas[1] |-> Lm2SecondLevel(betas, i, s.outcome.v, a, rngs[i])]} }) :
      betas \in {Lm2Betas(s.m, a)} }) :
    s \in {Lm2Setup(m, a)} })

(***************************************************************************)
(* The state machine: one model object is constructed, then fitted.        *)
(***************************************************************************)
Init ==
  /\ model = NoModel
  /\ call = [op |-> "none"]
  /\ nfits = 0

\* Lm(formula, data, family)
NewLm ==
  /\ model = NoModel
  /\ call.op = "none"
  /\ \E formula \in Formulas, family \in Families :
       \E r \in {LmInit(formula, InputData, family)} :
          /\ model' = IF r.ok THEN r.v ELSE NoModel
          /\ call' = [op |-> "Lm", family |-> family, outcome |-> IF r.ok THEN Ok(PyNone) ELSE r]
  /\ UNCHANGED nfits

\* model.fit(...) on an Lm
FitLm ==
  /\ model.cls = "Lm"
  /\ nfits < MaxFits
  /\ \E a \in LmFitArgs :
       \E rng \in RngStates(a.conf_int = "boot" \/ Truthy(a.permute)) :
       \E r \in {LmFit(model, a, rng)} :
          /\ model' = r.m
          /\ call' = [op |-> "Lm.fit", args |-> a, rng |-> rng, outcome |-> r.outcome,
                      trace |-> r.trace]
  /\ nfits' = nfits + 1

\* Lmer(formula, data, family)
NewLmer ==
  /\ model = NoModel
  /\ call.op = "none"
  /\ \E family \in Families :
       \E r \in {LmerInit(<<"DV", " ", "~", " ", "X", "+", "(1|G)">>, InputData, family)} :
          /\ model' = IF r.ok THEN r.v ELSE NoModel
          /\ call' = [op |-> "Lmer", family |-> family, outcome |-> IF r.ok THEN Ok(PyNone) ELSE r]
  /\ UNCHANGED nfits

\* Lm2(formula, data, group, family)
NewLm2 ==
  /\ model = NoModel
  /\ call.op = "none"
  /\ \E family \in Families, group \in Lm2Groups :
       \E r \in {Lm2Init(<<"DV", "~", "X">>, InputData, group, family)} :
          /\ model' = IF r.ok THEN r.v ELSE NoModel
          /\ call' = [op |-> "Lm2", family |-> family, group |-> group,
                      outcome |-> IF r.ok THEN Ok(PyNone) ELSE r]
  /\ UNCHANGED nfits

\* model.fit(...) on an Lmer
FitLmer ==
  /\ model.cls = "Lmer"
  /\ nfits < MaxFits
  /\ \E a \in LmerFitArgs, b \in RBehaviours(model.family) :
       \E rng \in RngStates(Truthy(a.permute)) :
       \E r \in {LmerFit(model, a, b, rng)} :
          /\ model' = r.m
          /\ call' = [op |-> "Lmer.fit", args |-> a, R |-> b, rng |-> rng,
                      outcome |-> r.outcome]
  /\ nfits' = nfits + 1

\* model.predict(data) on an Lm
PredictLm ==
  /\ model.cls = "Lm"
  /\ \E data \in PredictInputs :
       call' = [op |-> "Lm.predict", data |-> data, outcome |-> LmPredict(model, data)]
  /\ UNCHANGED <<model, nfits>>

Next == NewLm \/ FitLm \/ NewLmer \/ FitLmer \/ NewLm2 \/ PredictLm


Spec == Init /\ [][Next]_vars

(***************************************************************************)
(* The methods of a model: a model is constructed, fitted up to            *)
(* MaxMethodFits times, and summary, to_corrs, post_hoc and anova are      *)
(* called on it in any state.                                              *)
(***************************************************************************)
MaxMethodFits == 1

\* anova(force_orthogonal=True) refits the model: at most this many refits
MaxRefits == 1

\* the Lmer.fit calls made here
LmerMethodArgs ==
  {a \in LmerFitArgs : a.conf_int = "Wald" /\ a.permute = PyNone /\ a.rank_exclude_cols = <<>>
                        /\ (a.rank_group = "G" <=> ~a.rank)}

\* the Lm.fit calls made here
LmMethodArgs ==
  {[LmFitDefaults EXCEPT !.robust = r, !.permute = p, !.cluster = c] :
     r \in {PyBool(FALSE), PyBool(TRUE), PyStr("hc4")},
     p \in {PyNone, PyInt(NPerm)},
     c \in {PyNone, PyStr("site")}}

\* model.fit(...) on an Lm
FitLmMethod ==
  /\ model.cls = "Lm"
  /\ nfits < MaxMethodFits
  /\ \E a \in LmMethodArgs :
       \E rng \in RngStates(Truthy(a.permute)) :
       \E r \in {LmFit(model, a, rng)} :
          /\ model' = r.m
          /\ call' = [op |-> "Lm.fit", args |-> a, rng |-> rng, outcome |-> r.outcome,
                      trace |-> r.trace]
  /\ nfits' = nfits + 1

\* model.fit(...) on an Lmer
FitLmerMethod ==
  /\ model.cls = "Lmer"
  /\ nfits < MaxMethodFits
  /\ \E a \in LmerMethodArgs, b \in RBehaviours(model.family) :
       \E r \in {LmerFit(model, a, b, 0)} :
          /\ model' = r.m
          /\ call' = [op |-> "Lmer.fit", args |-> a, R |-> b, rng |-> 0,
                      outcome |-> r.outcome]
  /\ nfits' = nfits + 1

\* model.fit(...) on an Lm2
FitLm2 ==
  /\ model.cls = "Lm2"
  /\ nfits < MaxMethodFits
  /\ \E a \in Lm2FitArgs :
       \E rngs \in [1..2 -> RngStates(a.conf_int = "boot" \/ Truthy(a.permute))] :
       \E r \in {Lm2Fit(model, a, rngs)} :
          /\ model' = r.m
          /\ call' = [op |-> "Lm2.fit", args |-> a, rng |-> rngs, outcome |-> r.outcome]
  /\ nfits' = nfits + 1

\* model.summary()
CallSummary ==
  /\ model.cls \in {"Lm", "Lmer", "Lm2"}
  /\ call' = [op |-> model.cls \o ".summary",
              outcome |-> CASE model.cls = "Lm" -> LmSummary(model)
                            [] model.cls = "Lmer" -> LmerSummary(model)
                            [] OTHER -> Lm2Summary(model)]
  /\ UNCHANGED <<model, nfits>>

\* model.to_corrs(corr_type, ztrans_corrs) on an Lm
ToCorrsLm ==
  /\ model.cls = "Lm"
  /\ \E corr_type \in CorrTypes, ztrans_corrs \in BOOLEAN :
       call' = [op |-> "Lm.to_corrs", corr_type |-> corr_type, ztrans_corrs |-> ztrans_corrs,
                outcome |-> LmToCorrs(model, corr_type, ztrans_corrs)]
  /\ UNCHANGED <<model, nfits>>

\* model.post_hoc(marginal_vars, grouping_vars) on an Lmer
PostHocLmer ==
  /\ model.cls = "Lmer"
  /\ \E marginal_vars \in MarginalVars, grouping_vars \in GroupingVars,
        b \in RCallBehaviours \ {"short"} :
       \E r \in {LmerPostHoc(model, marginal_vars, grouping_vars, b)} :
          /\ model' = r.m
          /\ call' = [op |-> "Lmer.post_hoc", marginal_vars |-> marginal_vars,
                      grouping_vars |-> grouping_vars, outcome |-> r.outcome,
                      rcalls |-> r.rcalls]
  /\ UNCHANGED nfits

\* model.anova(force_orthogonal) on an Lmer
AnovaLmer ==
  /\ model.cls = "Lmer"
  /\ \E force_orthogonal \in BOOLEAN, b \in RCallBehaviours :
       LET refits == force_orthogonal /\ Truthy(model.factors)
       IN /\ refits => nfits < MaxMethodFits + MaxRefits
          /\ nfits' = IF refits THEN nfits + 1 ELSE nfits
          /\ \E fitR \in (IF refits THEN RBehaviours(model.family)
                           ELSE {CHOOSE x \in RBehaviours(model.family) : ~x.fit_error}) :
             \E r \in {LmerAnova(model, force_orthogonal, fitR, 0, b)} :
                /\ model' = r.m
                /\ call' = [op |-> "Lmer.anova", force_orthogonal |-> force_orthogonal,
                            outcome |-> r.outcome, rcalls |-> r.rcalls]

NextMethods ==
  \/ NewLm \/ NewLmer \/ NewLm2
  \/ FitLmMethod \/ FitLmerMethod \/ FitLm2
  \/ CallSummary \/ ToCorrsLm \/ PostHocLmer \/ AnovaLmer

SpecMethods == Init /\ [][NextMethods]_vars

(***************************************************************************)
(* Properties.  call is the last operation with its arguments and outcome; *)
(* model is the object as that operation left it.                          *)
(***************************************************************************)
LmFitReturned == call.op = "Lm.fit" /\ call.outcome.ok
LmerFitReturned == call.op = "Lmer.fit" /\ call.outcome.ok

Cell(table, i, name) == table.rows[i][ColIndex(table, name)]
Count(seq, x) == Cardinality({j \in DOMAIN seq : seq[j] = x})

\* C1: after Lm.fit with conf_int="boot" and permute None, the coefficient
\* table has neither a P-val nor a DF column, and each row's Sig is "*" exactly
\* when the row's [2.5_ci, 97.5_ci] interval excludes zero.
C1_BootDropsParametricColumns ==
  (LmFitReturned /\ call.args.conf_int = "boot" /\ call.args.permute = PyNone)
  => /\ ~HasCol(model.coefs, "P-val")
     /\ ~HasCol(model.coefs, "DF")
     /\ \A i \in DOMAIN model.coefs.rows :
          Cell(model.coefs, i, "Sig") =
            StrText(IF RLt(RInt(0), RMul(Cell(model.coefs, i, "2.5_ci"),
                                         Cell(model.coefs, i, "97.5_ci")))
                    THEN "*" ELSE "")

LmPermuteColumns ==
  <<"Estimate", "2.5_ci", "97.5_ci", "SE", "Num_perm", "T-stat", "Perm-P-val", "Sig">>
LmParametricColumns ==
  <<"Estimate", "2.5_ci", "97.5_ci", "SE", "DF", "T-stat", "P-val", "Sig">>

\* C2: after Lm.fit with a positive permute count P the table's columns are
\* Estimate, 2.5_ci, 97.5_ci, SE, Num_perm, T-stat, Perm-P-val, Sig and
\* Num_perm is P in every row, whatever cluster, weights or conf_int were;
\* without permute they are Estimate, 2.5_ci, 97.5_ci, SE, DF, T-stat, P-val,
\* Sig.
C2_LmColumns ==
  LmFitReturned
  => IF Truthy(call.args.permute)
     THEN /\ model.coefs.columns = LmPermuteColumns
          /\ \A i \in DOMAIN model.coefs.rows :
               Cell(model.coefs, i, "Num_perm") = RInt(call.args.permute.n)
     ELSE model.coefs.columns = LmParametricColumns

C2_Witness ==
  /\ LmFitReturned
  /\ call.args.permute = PyInt(NPerm)
  /\ call.args.conf_int = "boot"
  /\ call.args.weights = PyStr("G")
  /\ Len(model.coefs.rows) = 2
  /\ Cell(model.coefs, 2, "Num_perm") = RInt(NPerm)

\* C3: after Lmer.fit with a positive permute count, for every family, the
\* coefficient table has the column Num_perm exactly once, immediately before
\* the test-statistic column (T-stat or Z-stat), and ends with Perm-P-val
\* followed by Sig.
C3_LmerPermuteColumns ==
  (LmerFitReturned /\ Truthy(call.args.permute))
  => LET cols == model.coefs.columns
         n == Len(cols)
     IN /\ Count(cols, "Num_perm") = 1
        /\ cols[ColIndex(model.coefs, "Num_perm") + 1] \in {"T-stat", "Z-stat"}
        /\ cols[n - 1] = "Perm-P-val"
        /\ cols[n] = "Sig"

\* C4: Lm.fit with a cluster name that is not a column of the data raises
\* ValueError "cluster identifier must be an existing column in data", for
\* every value of robust, False included.
C4_MissingClusterIsRejected ==
  [][(model.cls = "Lm" /\ call'.op = "Lm.fit" /\ IsStr(call'.args.cluster)
      /\ ~HasColumn(model.data, call'.args.cluster.s))
     => call'.outcome = Raise("ValueError", ClusterError)]_vars

LmSupportedRobust ==
  {PyBool(FALSE), PyBool(TRUE), PyStr("hc0"), PyStr("hc1"), PyStr("hc2"), PyStr("hc3"),
   PyStr("hac"), PyStr("cluster")}

\* C5: Lm.fit with a robust name outside false/true/hc0/hc1/hc2/hc3/hac/cluster
\* raises before any fitting work: se_type, ci_type, sig_type, estimator,
\* ranked_data, design_matrix and warnings are as they were before the call,
\* and no design matrix was handed to the estimator.
C5_UnsupportedRobustFailsFast ==
  [][(model.cls = "Lm" /\ call'.op = "Lm.fit" /\ call'.args.robust \notin LmSupportedRobust)
     => /\ ~call'.outcome.ok
        /\ call'.trace.ols = <<>>
        /\ \A f \in {"se_type", "ci_type", "sig_type", "estimator", "ranked_data",
                     "design_matrix", "warnings"} : model'[f] = model[f]]_vars

\* C6: an unsupported family is rejected at construction and no object comes
\* to exist: Lmer raises ValueError outside gaussian, binomial, gamma,
\* inverse_gaussian, poisson; Lm and Lm2 raise NotImplementedError for any
\* family but gaussian; so every model that exists, and every model a fit
\* ran on, has a supported family.
C6_UnsupportedFamilyRejected ==
  /\ (call.op = "Lmer" /\ call.family \notin {"gaussian", "binomial", "gamma",
                                               "inverse_gaussian", "poisson"})
     => (~call.outcome.ok /\ call.outcome.kind = "ValueError" /\ model = NoModel)
  /\ (call.op \in {"Lm", "Lm2"} /\ call.family # "gaussian")
     => (~call.outcome.ok /\ call.outcome.kind = "NotImplementedError" /\ model = NoModel)
  /\ model.cls = "Lmer"
     => model.family \in {"gaussian", "binomial", "gamma", "inverse_gaussian", "poisson"}
  /\ model.cls \in {"Lm", "Lm2"} => model.family = "gaussian"
  /\ call.op \in {"Lm.fit", "Lmer.fit"} => model.cls # "none"

C6_Witness ==
  /\ call.op = "Lmer"
  /\ call.family = "weibull"
  /\ call.outcome = Raise("ValueError",
       "Family must be one of: gaussian, binomial, gamma, inverse_gaussian or poisson!")
  /\ model = NoModel

\* C7: Lm.fit with robust=True and with robust="hc1", on the same model with
\* the same other arguments and the same generator state, leave the same
\* model (se_type "robust (hc1)", coefficient table and all), hand the same
\* arguments to the estimator and the pools, and end the same way.
C7_RobustTrueIsHC1 ==
  [][(model.cls = "Lm" /\ call'.op = "Lm.fit" /\ call'.args.robust = PyBool(TRUE))
     => \A r \in {LmFit(model, [call'.args EXCEPT !.robust = PyStr("hc1")], call'.rng)} :
          /\ r.m = model'
          /\ r.outcome = call'.outcome
          /\ r.trace = call'.trace
          /\ model'.se_type = PyStr("robust (hc1)")]_vars

C7_Witness ==
  /\ LmFitReturned
  /\ call.args.robust = PyBool(TRUE)
  /\ model.se_type = PyStr("robust (hc1)")
  /\ call.trace.ols[1].robust = PyStr("hc1")
  /\ model.fitted

\* C8: after Lm.fit with cluster-robust inference and no permutation, DF in
\* every row is the number of distinct values of the cluster column minus the
\* number of design-matrix columns, and is at least 1.
C8_ClusterDF ==
  (LmFitReturned /\ call.args.robust = PyStr("cluster") /\ IsStr(call.args.cluster)
   /\ ~Truthy(call.args.permute))
  => \A i \in DOMAIN model.coefs.rows :
       /\ Cell(model.coefs, i, "DF") =
            RInt(nunique(Series(model.data, call.args.cluster.s))
                 - Len(model.design_matrix.columns))
       /\ RLe(RInt(1), Cell(model.coefs, i, "DF"))

\* C9: for robust in False, hc0, hc1, hc2, hc3, hac, Lm.fit with a cluster
\* column given ends as the same call with cluster=None ends (the same return
\* or the same error) and gives the same table: the same degrees of freedom,
\* p-values and confidence bounds.
C9_ClusterIgnoredUnlessClusterRobust ==
  [][(model.cls = "Lm" /\ call'.op = "Lm.fit" /\ IsStr(call'.args.cluster)
      /\ call'.args.robust \in {PyBool(FALSE), PyStr("hc0"), PyStr("hc1"), PyStr("hc2"),
                                PyStr("hc3"), PyStr("hac")})
     => \A r \in {LmFit(model, [call'.args EXCEPT !.cluster = PyNone], call'.rng)} :
          /\ r.outcome = call'.outcome
          /\ r.m.coefs = model'.coefs]_vars

\* the Welch-Satterthwaite degrees of freedom of the groups of column by:
\* (sum of s^2/n)^2 / sum of (s^2/n)^2/(n-1)
WelchSatterthwaite(data, by, dv) ==
  LET keys == GroupKeys(data, by)
      vals(k) == GroupValues(data, by, keys[k], dv)
      sn(k) == RDiv(VarDdof1(vals(k)), RInt(Len(vals(k))))
      num == RSum([k \in DOMAIN keys |-> sn(k)])
      den == RSum([k \in DOMAIN keys |-> RDiv(RMul(sn(k), sn(k)), RInt(Len(vals(k)) - 1))])
  IN RDiv(RMul(num, num), den)

\* n minus p of the design a fit built
ResidualDF(m) == RInt(m.design_matrix.nrows - Len(m.design_matrix.columns))

\* every row's DF is v, when the table has the column
TableDF(m, v) ==
  HasCol(m.coefs, "DF") => \A i \in DOMAIN m.coefs.rows : Cell(m.coefs, i, "DF") = v

\* the warnings a call appended to those of before
NewWarnings(before, after) == SubSeq(after.warnings, Len(before.warnings) + 1, Len(after.warnings))

\* C10: Lm.fit with no cluster and an estimator the variance code accepts.
\* Weights a column name and wls_dof_correction=True: with two groups DF is
\* the Welch-Satterthwaite value; with more than two the call records the
\* warning, completes, and DF is n - p.  Weights an array, or
\* wls_dof_correction=False: DF is n - p and the call records no Welch
\* warning.
C10_WelchCorrection ==
  [][(model.cls = "Lm" /\ call'.op = "Lm.fit" /\ call'.args.cluster = PyNone
      /\ call'.args.robust \in LmSupportedRobust \ {PyStr("cluster")}
      /\ call'.args.weights # PyNone)
     => /\ call'.outcome.ok
        /\ IF IsStr(call'.args.weights) /\ call'.args.wls_dof_correction
           THEN IF ngroups(model.data, call'.args.weights.s) = 2
                THEN /\ TableDF(model', WelchSatterthwaite(model.data, call'.args.weights.s,
                                                           ResponseName(model.formula)))
                     /\ WelchWarning \notin Range(NewWarnings(model, model'))
                ELSE /\ WelchWarning \in Range(NewWarnings(model, model'))
                     /\ model'.warnings[Len(model'.warnings)] = WelchWarning
                     /\ TableDF(model', ResidualDF(model'))
           ELSE /\ TableDF(model', ResidualDF(model'))
                /\ WelchWarning \notin Range(NewWarnings(model, model'))]_vars

C10_Witness ==
  /\ LmFitReturned
  /\ call.args.weights = PyStr("K")
  /\ call.args.wls_dof_correction
  /\ call.args.cluster = PyNone
  /\ ngroups(model.data, "K") = 3
  /\ WelchWarning \in Range(model.warnings)
  /\ HasCol(model.coefs, "DF")
  /\ Cell(model.coefs, 1, "DF") = ResidualDF(model)

\* the pools of a call that ran the given worker function
PoolsOf(trace, fn) ==
  SelectSeq(trace.pools, LAMBDA pool : \E k \in DOMAIN pool.tasks : pool.tasks[k].fn = fn)

\* C11: an Lm.fit call with permute P, 0 < P < 500, appends exactly one
\* low-permutation warning; the warning does not abort it (it returns whenever
\* the same call without permute returns), and a returned call has run P
\* permutations and stored a table.  With P >= 500 or no permute the call
\* appends no such warning.
C11_LowPermuteWarning ==
  [][(model.cls = "Lm" /\ call'.op = "Lm.fit")
     => IF call'.args.permute.t = "int" /\ 0 < call'.args.permute.n
           /\ call'.args.permute.n < 500
        THEN /\ Count(NewWarnings(model, model'), PermWarning) = 1
             /\ \A r \in {LmFit(model, [call'.args EXCEPT !.permute = PyNone], call'.rng)} :
                  r.outcome.ok => call'.outcome.ok
             /\ call'.outcome.ok
                => /\ Len(PoolsOf(call'.trace, "_chunk_perm_ols")) = 1
                   /\ Len(PoolsOf(call'.trace, "_chunk_perm_ols")[1].tasks) = call'.args.permute.n
                   /\ model'.fitted
                   /\ HasCol(model'.coefs, "Perm-P-val")
        ELSE Count(NewWarnings(model, model'), PermWarning) = 0]_vars

C11_Witness ==
  /\ LmFitReturned
  /\ call.args.permute = PyInt(NPerm)
  /\ NPerm < 500
  /\ Count(model.warnings, PermWarning) = 1
  /\ Len(PoolsOf(call.trace, "_chunk_perm_ols")[1].tasks) = NPerm
  /\ HasCol(model.coefs, "Perm-P-val")

(***************************************************************************)
(* Repeated fits of one Lm model: up to MaxSeqFits calls, over the         *)
(* arguments that issue warnings and those that end a call in an error.    *)
(***************************************************************************)
LmSeqArgs ==
  {[LmFitDefaults EXCEPT !.permute = p, !.weights = w, !.robust = r] :
     p \in {PyNone, PyInt(NPerm)},
     w \in {PyNone, PyStr("K")},
     r \in {PyBool(FALSE), PyStr("hc4")}}

\* model.fit(...) on an Lm that may have been fitted before
FitLmAgain ==
  /\ model.cls = "Lm"
  /\ nfits < MaxSeqFits
  /\ \E a \in LmSeqArgs :
       \E rng \in RngStates(Truthy(a.permute)) :
       \E r \in {LmFit(model, a, rng)} :
          /\ model' = r.m
          /\ call' = [op |-> "Lm.fit", args |-> a, rng |-> rng, outcome |-> r.outcome,
                      trace |-> r.trace]
  /\ nfits' = nfits + 1

NextLmSeq == NewLm \/ FitLmAgain

SpecLmSeq == Init /\ [][NextLmSeq]_vars

\* C12: every warning an Lm.fit call issues (low permutation count, Welch
\* correction with a group count other than two) is in model.warnings when
\* the call ends, and a fit call removes nothing from model.warnings: the
\* list of before is a prefix of the list of after.
C12_WarningsAccumulate ==
  [][(model.cls = "Lm" /\ call'.op = "Lm.fit")
     => /\ Len(model.warnings) <= Len(model'.warnings)
        /\ SubSeq(model'.warnings, 1, Len(model.warnings)) = model.warnings
        /\ (call'.args.permute.t = "int" /\ 0 < call'.args.permute.n
            /\ call'.args.permute.n < 500)
           => PermWarning \in Range(NewWarnings(model, model'))
        /\ (call'.outcome.ok /\ IsStr(call'.args.weights) /\ call'.args.wls_dof_correction
            /\ call'.args.cluster = PyNone /\ ngroups(model.data, call'.args.weights.s) # 2)
           => WelchWarning \in Range(NewWarnings(model, model'))]_vars

C12_Witness ==
  /\ nfits >= 2
  /\ call.op = "Lm.fit"
  /\ call.outcome.ok
  /\ call.args.permute = PyNone
  /\ call.args.weights = PyNone
  /\ PermWarning \in Range(model.warnings)
  /\ WelchWarning \in Range(model.warnings)

\* C13: a warning raised during Lmer.fit is stored in model.warnings: after a
\* returned fit with rank=True and factors not all excluded from the rank
\* conversion, the warning about it is in model.warnings, whether or not R
\* reported messages of its own.
C13_LmerKeepsRankWarning ==
  (LmerFitReturned /\ call.args.rank /\ Truthy(call.args.factors)
   /\ call.args.factors.keys # Range(call.args.rank_exclude_cols))
  => FactorRankWarning \in Range(model.warnings)

\* C14: in every Lm.fit call with a robust estimator selected and with
\* permutation, each pool the permutation runs are dispatched to has exactly
\* one worker, whatever n_jobs was passed.
C14_RobustPermuteSingleWorker ==
  (call.op = "Lm.fit" /\ Truthy(call.args.robust) /\ Truthy(call.args.permute))
  => \A k \in DOMAIN PoolsOf(call.trace, "_chunk_perm_ols") :
       PoolsOf(call.trace, "_chunk_perm_ols")[k].n_jobs = 1

C14_Witness ==
  /\ LmFitReturned
  /\ call.args.robust = PyStr("hc3")
  /\ call.args.permute = PyInt(NPerm)
  /\ call.args.n_jobs = 2
  /\ Len(PoolsOf(call.trace, "_chunk_perm_ols")) = 1
  /\ PoolsOf(call.trace, "_chunk_perm_ols")[1].n_jobs = 1

\* the orders in which n worker results may be collected: every order of up
\* to MaxShuffled results; for more, as dispatched, reversed, and rotated
Orders(n) ==
  IF n <= MaxShuffled THEN Permutations(1..n)
  ELSE {[k \in 1..n |-> k], [k \in 1..n |-> n + 1 - k], [k \in 1..n |-> (k % n) + 1]}

Collected(results, order) == [k \in DOMAIN results |-> results[order[k]]]

\* what the workers of a call's pool return
BootResults(trace) ==
  LET tasks == PoolsOf(trace, "_chunk_boot_ols_coefs")[1].tasks
  IN [k \in DOMAIN tasks |->
        chunk_boot_ols_coefs(tasks[k].dat, tasks[k].formula, tasks[k].weights, tasks[k].seed)]

PermResults(trace) ==
  LET tasks == PoolsOf(trace, "_chunk_perm_ols")[1].tasks
  IN [k \in DOMAIN tasks |->
        chunk_perm_ols(tasks[k].x, tasks[k].y, tasks[k].robust, tasks[k].cluster,
                       tasks[k].weights, tasks[k].seed)]

\* C15: the bootstrap bounds and the permutation p-values Lm.fit stores are
\* those computed from the workers' results collected in any order: reordering
\* the result vectors changes neither the 2.5_ci and 97.5_ci columns nor the
\* Perm-P-val column.
C15_CollectionOrderIrrelevant ==
  LmFitReturned
  => /\ call.args.conf_int = "boot"
        => \A r \in {BootResults(call.trace)} : \A order \in Orders(Len(r)) :
             \A b \in {LmBootBounds(Collected(r, order), Len(model.coefs.rows))} :
               \A i \in DOMAIN model.coefs.rows :
                 /\ Cell(model.coefs, i, "2.5_ci") = b.ci_l[i]
                 /\ Cell(model.coefs, i, "97.5_ci") = b.ci_u[i]
     /\ Truthy(call.args.permute)
        => \A r \in {PermResults(call.trace)} : \A order \in Orders(Len(r)) :
             \A p \in {LmPermP(Collected(r, order), Column(model.coefs, "T-stat"))} :
               \A i \in DOMAIN model.coefs.rows : Cell(model.coefs, i, "Perm-P-val") = p[i]

C15_Witness ==
  /\ LmFitReturned
  /\ call.args.conf_int = "boot"
  /\ call.args.permute = PyInt(NPerm)
  /\ BootResults(call.trace)[1] # BootResults(call.trace)[2]
  /\ PermResults(call.trace)[1] # PermResults(call.trace)[2]
  /\ Cell(model.coefs, 1, "2.5_ci") # Cell(model.coefs, 1, "97.5_ci")

\* the seeds of a pool's tasks are pairwise different
DistinctSeeds(tasks) ==
  \A j, k \in DOMAIN tasks : j # k => tasks[j].seed # tasks[k].seed

\* C16: a resampling run of Lm.fit dispatches exactly n_boot bootstrap tasks
\* (exactly permute permutation tasks), each with one seed fixed by the parent
\* before dispatch, no two tasks of a run with the same seed.
C16_OneDistinctSeedPerTask ==
  LmFitReturned
  => /\ call.args.conf_int = "boot"
        => /\ Len(PoolsOf(call.trace, "_chunk_boot_ols_coefs")) = 1
           /\ Len(PoolsOf(call.trace, "_chunk_boot_ols_coefs")[1].tasks) = call.args.n_boot
           /\ DistinctSeeds(PoolsOf(call.trace, "_chunk_boot_ols_coefs")[1].tasks)
     /\ Truthy(call.args.permute)
        => /\ Len(PoolsOf(call.trace, "_chunk_perm_ols")) = 1
           /\ Len(PoolsOf(call.trace, "_chunk_perm_ols")[1].tasks) = call.args.permute.n
           /\ DistinctSeeds(PoolsOf(call.trace, "_chunk_perm_ols")[1].tasks)

\* the number of results whose i-th statistic is at least obs in absolute value
AtLeastAsExtreme(results, i, obs) ==
  Cardinality({k \in DOMAIN results : RLe(RAbs(obs), RAbs(results[k][i]))})

\* C17: for every coefficient, the empirical p-value Lm.fit stores with
\* permute P >= 1 is (number of permuted statistics of that coefficient with
\* |T_perm| >= |T_obs|, plus 1) / (P + 1), and so is above 0 and at most 1.
C17_EmpiricalPValue ==
  (LmFitReturned /\ Truthy(call.args.permute))
  => \A r \in {PermResults(call.trace)} : \A i \in DOMAIN model.coefs.rows :
       /\ Len(r) = call.args.permute.n
       /\ Cell(model.coefs, i, "Perm-P-val") =
            Rat(AtLeastAsExtreme(r, i, Cell(model.coefs, i, "T-stat")) + 1,
                call.args.permute.n + 1)
       /\ RLt(RInt(0), Cell(model.coefs, i, "Perm-P-val"))
       /\ RLe(Cell(model.coefs, i, "Perm-P-val"), RInt(1))

C17_Witness ==
  /\ LmFitReturned
  /\ call.args.permute = PyInt(NPerm)
  /\ Len(model.coefs.rows) = 2
  /\ Cell(model.coefs, 1, "Perm-P-val") = RInt(1)
  /\ RLt(Cell(model.coefs, 2, "Perm-P-val"), RInt(1))

\* the fixed thresholds: "***" p < 0.001, "**" p < 0.01, "*" p < 0.05,
\* "." p < 0.1, "" otherwise
Marker(p) ==
  IF RLt(p, Rat(1, 1000)) THEN "***"
  ELSE IF RLt(p, Rat(1, 100)) THEN "**"
  ELSE IF RLt(p, Rat(5, 100)) THEN "*"
  ELSE IF RLt(p, Rat(1, 10)) THEN "."
  ELSE ""

OlsResults(trace) ==
  ols(trace.ols[1].x, trace.ols[1].y, trace.ols[1].robust, trace.ols[1].cluster,
      trace.ols[1].weights).v

\* C19: after every returned Lm.fit the table has one row per design-matrix
\* column, labelled with the design matrix's column names in their order, and
\* row i holds the estimate, standard error, statistic and bounds of
\* design-matrix column i, with bootstrap bounds and permutation p-values too.
C19_RowsFollowDesignColumns ==
  LmFitReturned
  => /\ model.coefs.index = model.design_matrix.columns
     /\ Len(model.coefs.rows) = Len(model.design_matrix.columns)
     /\ \A o \in {OlsResults(call.trace)} : \A i \in DOMAIN model.design_matrix.columns :
          /\ o.b[i] = OlsEstimate(model.design_matrix.columns[i], call.args.rank,
                                  call.args.weights # PyNone)
          /\ Cell(model.coefs, i, "Estimate") = o.b[i]
          /\ Cell(model.coefs, i, "SE") = o.se[i]
          /\ Cell(model.coefs, i, "T-stat") = o.t[i]
          /\ call.args.conf_int = "boot"
             => \A r \in {BootResults(call.trace)} :
                  /\ Cell(model.coefs, i, "2.5_ci") =
                       Percentile([k \in DOMAIN r |-> r[k][i]], 1, 40)
                  /\ Cell(model.coefs, i, "97.5_ci") =
                       Percentile([k \in DOMAIN r |-> r[k][i]], 39, 40)
          /\ (call.args.conf_int # "boot" /\ HasCol(model.coefs, "DF"))
             => /\ Cell(model.coefs, i, "97.5_ci") =
                     RAdd(o.b[i], RMul(Ppf975(Cell(model.coefs, i, "DF")), o.se[i]))
                /\ Cell(model.coefs, i, "2.5_ci") =
                     RSub(o.b[i], RMul(Ppf975(Cell(model.coefs, i, "DF")), o.se[i]))
          /\ Truthy(call.args.permute)
             => \A r \in {PermResults(call.trace)} :
                  Cell(model.coefs, i, "Perm-P-val") =
                    perm_find([k \in DOMAIN r |-> r[k][i]], o.t[i])

C19_Witness ==
  /\ LmFitReturned
  /\ call.args.conf_int = "boot"
  /\ call.args.permute = PyInt(NPerm)
  /\ model.coefs.index = <<"Intercept", "X">>
  /\ model.design_matrix.columns = <<"Intercept", "X">>
  /\ Cell(model.coefs, 1, "Estimate") # Cell(model.coefs, 2, "Estimate")
  /\ Cell(model.coefs, 1, "T-stat") # Cell(model.coefs, 2, "T-stat")

\* the prediction for row r of data: the sum over every design-matrix column
\* of its coefficient times its value in the row, an intercept's value being 1
LinearPredictor(m, data, r) ==
  RSum([i \in DOMAIN m.design_matrix.columns |->
          IF m.design_matrix.columns[i] = "Intercept"
          THEN Cell(m.coefs, i, "Estimate")
          ELSE RMul(Cell(m.coefs, i, "Estimate"),
                    RInt(data.rows[r][m.design_matrix.columns[i]]))])

\* C20: Lm.predict on a fitted model, given data that has the predictors,
\* returns for every row the sum over all
\* design-matrix columns of coefficient times predictor value when the model
\* has no intercept, and the intercept plus that sum over the remaining
\* columns when it has one.
C20_PredictUsesEveryColumn ==
  (call.op = "Lm.predict" /\ call.outcome.ok /\ model.fitted
   /\ Range(model.design_matrix.columns) \ {"Intercept"} \subseteq Range(call.data.columns))
  => \A r \in DOMAIN call.data.rows :
       call.outcome.v[r] = LinearPredictor(model, call.data, r)

\* C21: constructing a gaussian Lm2 succeeds when group is a single column
\* name or a list of column names, and raises TypeError only when group is
\* neither a string nor a list.
C21_Lm2AcceptsGroupList ==
  (call.op = "Lm2" /\ call.family = "gaussian")
  => IF call.group.t \in {"str", "list"}
     THEN call.outcome.ok /\ model.cls = "Lm2" /\ model.group = call.group
     ELSE call.outcome = Raise("TypeError", "group must be a string or list")

\* C23: after every Lmer.fit that returns, model.resid holds the residuals
\* of the fitted model (it is not None) and the "residuals" column of
\* model.data holds those residuals, just as model.fits and the "fits"
\* column hold the fitted values.
C23_LmerResiduals ==
  LmerFitReturned
  => /\ model.resid # PyNone
     /\ HasColumn(model.data, "residuals")
     /\ model.data.assigned["residuals"] = model.resid
     /\ model.fits # PyNone
     /\ HasColumn(model.data, "fits")
     /\ model.data.assigned["fits"] = model.fits

\* C27: in an Lm.fit call with conf_int = "boot" every bootstrap refit is
\* given the data that produced the point estimates: the rank-transformed
\* model data when rank = True, the model data itself otherwise.
C27_BootstrapResamplesFittedData ==
  [][(model.cls = "Lm" /\ call'.op = "Lm.fit" /\ call'.args.conf_int = "boot"
      /\ Len(PoolsOf(call'.trace, "_chunk_boot_ols_coefs")) > 0)
     => \A k \in DOMAIN PoolsOf(call'.trace, "_chunk_boot_ols_coefs")[1].tasks :
          /\ PoolsOf(call'.trace, "_chunk_boot_ols_coefs")[1].tasks[k].dat
               = (IF call'.args.rank THEN rank(model.data) ELSE model.data)
          /\ PoolsOf(call'.trace, "_chunk_boot_ols_coefs")[1].tasks[k].dat.ranked
               = call'.trace.ols[1].x.ranked]_vars

\* C26: whenever an Lm.fit or Lmer.fit call raises, the model's fitted flag
\* and coefs table are exactly what they were before the call; a first fit
\* that raises leaves fitted False and coefs None.
C26_FailedFitKeepsFittedAndCoefs ==
  [][(call'.op \in {"Lm.fit", "Lmer.fit"} /\ ~call'.outcome.ok)
     => /\ model'.fitted = model.fitted
        /\ model'.coefs = model.coefs]_vars

\* C22: Lmer.post_hoc on a fitted model, with marginal_vars given, raises
\* ValueError for grouping_vars that are not all factors of the model,
\* passed as one name or as a list of names, and makes no R call.
C22_PostHocRejectsNonFactors ==
  [][(model.cls = "Lmer" /\ call'.op = "Lmer.post_hoc" /\ model.fitted
      /\ Truthy(call'.marginal_vars) /\ Truthy(call'.grouping_vars)
      /\ \E e \in Range(AsList(call'.grouping_vars)) :
           ~Truthy(model.factors) \/ e \notin FactorKeys(model))
     => /\ call'.outcome = Raise("ValueError", GroupingError)
        /\ call'.rcalls = <<>>
        /\ model' = model]_vars

\* C24: in every state of an Lm, Lmer or Lm2 model whose fitted is False,
\* summary() raises RuntimeError and changes no attribute of the model,
\* and Lm.to_corrs and Lmer.post_hoc with non-empty marginal_vars raise
\* RuntimeError too.
C24_UnfittedModelsRefuse ==
  [][(model.cls \in {"Lm", "Lmer", "Lm2"} /\ ~model.fitted)
     => /\ call'.op \in {"Lm.summary", "Lmer.summary", "Lm2.summary"}
           => /\ ~call'.outcome.ok
              /\ call'.outcome.kind = "RuntimeError"
              /\ model' = model
        /\ call'.op = "Lm.to_corrs"
           => /\ ~call'.outcome.ok
              /\ call'.outcome.kind = "RuntimeError"
        /\ (call'.op = "Lmer.post_hoc" /\ Truthy(call'.marginal_vars))
           => /\ ~call'.outcome.ok
              /\ call'.outcome.kind = "RuntimeError"]_vars

\* summary() has just refused an Lm2 whose only fit call failed after it had
\* set some attributes
C24_Witness ==
  /\ call.op = "Lm2.summary"
  /\ model.cls = "Lm2"
  /\ ~model.fitted
  /\ nfits = 1
  /\ model.se_type # PyNone
  /\ call.outcome = Raise("RuntimeError", "Model must be fitted to generate summary!")

\* C25: an Lmer model has factors only if it has been fitted, so anova on a
\* model that is not fitted always raises the ValueError "Model must be fit
\* before ANOVA table can be generated!" before any R call, also after a fit
\* call with factors that failed.
C25_FactorsImplyFitted ==
  [][/\ model'.cls = "Lmer" => (Truthy(model'.factors) => model'.fitted)
     /\ (model.cls = "Lmer" /\ call'.op = "Lmer.anova" /\ ~model.fitted)
        => /\ call'.outcome = Raise("ValueError", AnovaError)
           /\ call'.rcalls = <<>>]_vars
====
